---------------------------- MODULE Spec2Model ----------------------------
(***************************************************************************)
(* A model of the hybrid retrieval and ingestion core of the document      *)
(* research workspace: the chunker (lib/server/chunking.ts), the tag       *)
(* filter and tag association updates (lib/server/documents.ts) and the    *)
(* hybrid search action (searchDocumentsAction).                           *)
(*                                                                         *)
(* Text is modelled as a sequence of one-character strings, so that        *)
(* trimming, lower-casing, splitting, joining and substring search are     *)
(* computed character by character as the code computes them.              *)
(***************************************************************************)
EXTENDS Integers, Sequences, FiniteSets, TLC

VARIABLES
    chunkIn,        \* the arguments of the buildChunks call under study
    chunkOut,       \* what buildChunks returned for chunkIn
    chunkDone,      \* whether buildChunks has run on chunkIn
    tags,           \* table tags: rows [id, name] in insertion order
    documentTags,   \* table document_tags: rows [documentId, tagId]
    filterOut,      \* the last filterDocumentsByTagNames call and its result
    documents,      \* table documents: rows [id, title, descriptionMd, pageCount]
    documentText,   \* table document_text: rows [documentId, text]
    documentPages,  \* table document_pages: rows [documentId, page, text]
    chunks,         \* table chunks: rows [id, documentId, pageStart, pageEnd, chunkIndex, text]
    chunkEmbeddings, \* table chunk_embeddings: rows [chunkId, chromaId]
    chroma,         \* the vector collection: entries [id, metadata]
    nextDocId,      \* the next document id crypto.randomUUID() mints
    searchOut,      \* the last searchDocumentsAction call and what it returned
    notes,          \* table notes: rows [id, documentId]
    noteTags,       \* table note_tags: rows [noteId, tagId]
    noteLinks,      \* table note_links: rows [noteId, linkedDocumentId]
    lastCall,       \* the call under study, what it found and what it returned
    collectionPromise, \* chroma.ts collectionPromise: "null", "resolved" or "rejected"
    chromaUp,       \* whether the vector service answers requests
    uploads         \* data/uploads: the ids of the documents whose file is stored

chunkVars == <<chunkIn, chunkOut, chunkDone>>

tagVars == <<tags, documentTags>>

docVars == <<documents, documentText, documentPages, chunks, chunkEmbeddings,
             chroma, nextDocId, notes, noteTags, noteLinks>>

\* The state outside the database: the vector gateway and the upload
\* directory.
outsideVars == <<collectionPromise, chromaUp, uploads>>

vars == <<chunkIn, chunkOut, chunkDone, tags, documentTags, filterOut,
          documents, documentText, documentPages, chunks, chunkEmbeddings,
          chroma, nextDocId, searchOut, notes, noteTags, noteLinks, lastCall,
          collectionPromise, chromaUp, uploads>>

-----------------------------------------------------------------------------
(* Bounds of the model.                                                    *)

\* Longest list of pages handed to buildChunks.
MaxPages == 2

\* Largest total number of characters over all pages of one buildChunks call.
MaxTotalLen == 4

\* Largest chunkSize argument tried.
MaxChunkSize == 3

\* Largest overlap argument tried.
MaxOverlap == 2

\* Number of document ids that setDocumentTags is called with.
MaxDocs == 2

\* Longest list of tag names handed to setDocumentTags and to
\* filterDocumentsByTagNames.
MaxNames == 2

\* The chunk size and overlap ingestion chunks with in the model. The code
\* uses the defaults 260 and 80; documents of hundreds of words are beyond
\* what is enumerated here, so that documents of a few words already have
\* several overlapping chunks. Search reads chunk rows, never these numbers.
ScaledChunkSize == 2

ScaledOverlap == 1

\* Number of documents uploaded in one behaviour.
MaxUploads == 2

\* Largest limit a search asks for.
MaxLimit == 2

\* Longest answer of the vector query.
MaxResults == 2

\* Most notes created.
MaxNotes == 2

-----------------------------------------------------------------------------
(* Strings.                                                                *)

\* The white space characters of the model (String.prototype.trim and the
\* regular expression class \s agree on them).
IsSpace(c) == c \in {" ", "\n"}

\* String.prototype.toLowerCase on one character.
LowerChar(c) ==
    CASE c = "A" -> "a"
      [] c = "B" -> "b"
      [] c = "C" -> "c"
      [] OTHER -> c

\* String.prototype.toLowerCase.
ToLower(s) == [i \in 1..Len(s) |-> LowerChar(s[i])]

RECURSIVE TrimStart(_)
TrimStart(s) ==
    IF s = <<>> THEN <<>>
    ELSE IF IsSpace(Head(s)) THEN TrimStart(Tail(s))
    ELSE s

RECURSIVE TrimEnd(_)
TrimEnd(s) ==
    IF s = <<>> THEN <<>>
    ELSE IF IsSpace(s[Len(s)]) THEN TrimEnd(SubSeq(s, 1, Len(s) - 1))
    ELSE s

\* String.prototype.trim.
Trim(s) == TrimEnd(TrimStart(s))

\* Array.prototype.join on a list of strings.
RECURSIVE Join(_, _)
Join(parts, sep) ==
    IF parts = <<>> THEN <<>>
    ELSE IF Len(parts) = 1 THEN parts[1]
    ELSE parts[1] \o sep \o Join(Tail(parts), sep)

\* All strings over the alphabet of length at most n.
RECURSIVE StringsUpTo(_, _)
StringsUpTo(alphabet, n) ==
    IF n = 0 THEN {<<>>}
    ELSE LET shorter == StringsUpTo(alphabet, n - 1)
         IN  shorter \cup {Append(s, c) : s \in shorter, c \in alphabet}

-----------------------------------------------------------------------------
(* The chunker: lib/server/chunking.ts.                                    *)

\* value.split(/\s+/) on a trimmed string: the maximal runs of characters
\* between runs of white space. `cur` is the piece being read.
RECURSIVE SplitOnSpace(_, _)
SplitOnSpace(s, cur) ==
    IF s = <<>> THEN <<cur>>
    ELSE IF IsSpace(Head(s))
         THEN <<cur>> \o SplitOnSpace(TrimStart(s), <<>>)
    ELSE SplitOnSpace(Tail(s), Append(cur, Head(s)))

\* Array.prototype.filter(Boolean) on a list of strings: drops the empty ones.
RECURSIVE FilterNonEmpty(_)
FilterNonEmpty(parts) ==
    IF parts = <<>> THEN <<>>
    ELSE IF Head(parts) = <<>> THEN FilterNonEmpty(Tail(parts))
    ELSE <<Head(parts)>> \o FilterNonEmpty(Tail(parts))

\* splitWords: value.trim().split(/\s+/).filter(Boolean).
splitWords(value) == FilterNonEmpty(SplitOnSpace(Trim(value), <<>>))

\* The chunk id `${documentId}:chunk:${chunkIndex}`, kept as the pair it is
\* built from.
ChunkIdOf(documentId, chunkIndex) == <<documentId, chunkIndex>>

\* carryWords.slice(Math.max(0, chunkSize - overlap)).
SliceFrom(words, start) == SubSeq(words, start + 1, Len(words))

Max(a, b) == IF a >= b THEN a ELSE b

Min(a, b) == IF a <= b THEN a ELSE b

\* The loop state of buildChunks before the first page.
ChunkLoopInit ==
    [chunks |-> <<>>, chunkIndex |-> 0, carryWords |-> <<>>,
     carryStartPage |-> 0, carryEndPage |-> 0]

\* A TextChunk with its two page numbers exchanged.
MakeChunk_SwapsPages(documentId, st) ==
    [chunkId |-> ChunkIdOf(documentId, st.chunkIndex),
     chunkIndex |-> st.chunkIndex,
     pageStart |-> IF st.carryEndPage = 0 THEN st.carryStartPage ELSE st.carryEndPage,
     pageEnd |-> st.carryStartPage,
     text |-> Join(st.carryWords, <<" ">>)]

\* One TextChunk as buildChunks pushes it (0 stands for a null page).
MakeChunk(documentId, st) ==
    [chunkId |-> ChunkIdOf(documentId, st.chunkIndex),
     chunkIndex |-> st.chunkIndex,
     pageStart |-> st.carryStartPage,
     pageEnd |-> IF st.carryEndPage = 0 THEN st.carryStartPage ELSE st.carryEndPage,
     text |-> Join(st.carryWords, <<" ">>)]

\* PushWord with the retained tail forgotten: the buffer is emptied after an
\* emission whatever the overlap.
PushWord_DropsCarry(documentId, st, page, word, chunkSize, overlap) ==
    LET start == IF st.carryStartPage = 0 THEN page ELSE st.carryStartPage
        pushed == [st EXCEPT !.carryStartPage = start,
                             !.carryEndPage = page,
                             !.carryWords = Append(st.carryWords, word)]
    IN  IF Len(pushed.carryWords) >= chunkSize
        THEN [pushed EXCEPT
                !.chunks = Append(st.chunks, MakeChunk(documentId, pushed)),
                !.chunkIndex = st.chunkIndex + 1,
                !.carryWords = <<>>,
                !.carryStartPage = pushed.carryEndPage]
        ELSE pushed

\* PushWord with the emission test off by one: > instead of >=.
PushWord_EmitsLate(documentId, st, page, word, chunkSize, overlap) ==
    LET start == IF st.carryStartPage = 0 THEN page ELSE st.carryStartPage
        pushed == [st EXCEPT !.carryStartPage = start,
                             !.carryEndPage = page,
                             !.carryWords = Append(st.carryWords, word)]
    IN  IF Len(pushed.carryWords) > chunkSize
        THEN [pushed EXCEPT
                !.chunks = Append(st.chunks, MakeChunk(documentId, pushed)),
                !.chunkIndex = st.chunkIndex + 1,
                !.carryWords = SliceFrom(pushed.carryWords, Max(0, chunkSize - overlap)),
                !.carryStartPage = pushed.carryEndPage]
        ELSE pushed

\* The body of the inner loop of buildChunks for one word of page `page`.
PushWord(documentId, st, page, word, chunkSize, overlap) ==
    LET start == IF st.carryStartPage = 0 THEN page ELSE st.carryStartPage
        pushed == [st EXCEPT !.carryStartPage = start,
                             !.carryEndPage = page,
                             !.carryWords = Append(st.carryWords, word)]
    IN  IF Len(pushed.carryWords) >= chunkSize
        THEN [pushed EXCEPT
                !.chunks = Append(st.chunks, MakeChunk(documentId, pushed)),
                !.chunkIndex = st.chunkIndex + 1,
                !.carryWords = SliceFrom(pushed.carryWords, Max(0, chunkSize - overlap)),
                !.carryStartPage = pushed.carryEndPage]
        ELSE pushed

\* The inner loop of buildChunks over the words of one page.
RECURSIVE PushWords(_, _, _, _, _, _)
PushWords(documentId, st, page, words, chunkSize, overlap) ==
    IF words = <<>> THEN st
    ELSE PushWords(documentId,
                   PushWord(documentId, st, page, Head(words), chunkSize, overlap),
                   page, Tail(words), chunkSize, overlap)

\* The outer loop of buildChunks over the pages; a page without words is
\* skipped.
RECURSIVE PushPages(_, _, _, _, _)
PushPages(documentId, st, pages, chunkSize, overlap) ==
    IF pages = <<>> THEN st
    ELSE LET words == splitWords(Head(pages).text)
             after == IF words = <<>> THEN st
                      ELSE PushWords(documentId, st, Head(pages).page, words,
                                     chunkSize, overlap)
         IN  PushPages(documentId, after, Tail(pages), chunkSize, overlap)

\* buildChunks without the push after the loop: the words still buffered
\* after the last page are dropped.
buildChunks_NoFinalChunk(documentId, pages, chunkSize, overlap) ==
    PushPages(documentId, ChunkLoopInit, pages, chunkSize, overlap).chunks

\* buildChunks with a chunkIndex that outlives the call: a run counts on
\* from the chunks of the run before.
buildChunks_SharedIndex(documentId, pages, chunkSize, overlap) ==
    LET st == PushPages(documentId,
                        [ChunkLoopInit EXCEPT !.chunkIndex = Len(chunkOut)],
                        pages, chunkSize, overlap)
    IN  IF Len(st.carryWords) > 0 /\ st.carryStartPage # 0
        THEN Append(st.chunks, MakeChunk(documentId, st))
        ELSE st.chunks

\* buildChunks(documentId, pages, chunkSize, overlap).
buildChunks(documentId, pages, chunkSize, overlap) ==
    LET st == PushPages(documentId, ChunkLoopInit, pages, chunkSize, overlap)
    IN  IF Len(st.carryWords) > 0 /\ st.carryStartPage # 0
        THEN Append(st.chunks, MakeChunk(documentId, st))
        ELSE st.chunks

\* The default arguments of buildChunks.
DefaultChunkSize == 260

DefaultOverlap == 80

-----------------------------------------------------------------------------
(* The buildChunks calls under study.                                      *)

ChunkAlphabet == {"a", "b", " "}

\* Lists of at most n page texts whose lengths sum to at most total.
RECURSIVE PageTexts(_, _)
PageTexts(n, total) ==
    IF n = 0 THEN {<<>>}
    ELSE {<<>>} \cup
         UNION {{<<t>> \o rest : rest \in PageTexts(n - 1, total - Len(t))} :
                t \in StringsUpTo(ChunkAlphabet, total)}

\* Pages as the extractor numbers them: 1, 2, ... in order.
NumberPages(texts) == [i \in 1..Len(texts) |-> [page |-> i, text |-> texts[i]]]

ChunkInputs ==
    [documentId : {1},
     pages : {NumberPages(ts) : ts \in PageTexts(MaxPages, MaxTotalLen)},
     chunkSize : 1..MaxChunkSize,
     overlap : 0..MaxOverlap]

\* No buildChunks call is under study.
ChunkIdle ==
    /\ chunkIn = [documentId |-> 1, pages |-> <<>>, chunkSize |-> 1, overlap |-> 0]
    /\ chunkOut = <<>>
    /\ chunkDone = FALSE

\* The relational tables as the schema bootstrap leaves them: empty.
TagTablesEmpty ==
    /\ tags = <<>>
    /\ documentTags = <<>>

\* No filterDocumentsByTagNames result is outstanding.
NoFilterCall ==
    [called |-> FALSE, tagNames |-> <<>>, null |-> FALSE, ids |-> <<>>,
     readRelations |-> FALSE]

\* The document tables and the vector collection before the first upload.
DocTablesEmpty ==
    /\ documents = <<>>
    /\ documentText = <<>>
    /\ documentPages = <<>>
    /\ chunks = <<>>
    /\ chunkEmbeddings = <<>>
    /\ chroma = <<>>
    /\ nextDocId = 1
    /\ notes = <<>>
    /\ noteTags = <<>>
    /\ noteLinks = <<>>

\* No call is under study.
NoCall == [op |-> "none"]

\* The module of the vector gateway is freshly loaded (no collection was
\* asked for yet) and the vector service is up.
GatewayIdle ==
    /\ collectionPromise = "null"
    /\ chromaUp = TRUE
    /\ uploads = {}

\* No searchDocumentsAction result is outstanding.
NoSearchCall ==
    [called |-> FALSE, query |-> <<>>, tagNamesCsv |-> <<>>, limit |-> 1,
     fail |-> "none", rows |-> <<>>,
     ok |-> FALSE, data |-> <<>>, calls |-> <<>>,
     keyword |-> <<>>, scores |-> <<>>]

InitChunk ==
    /\ GatewayIdle
    /\ chunkIn \in ChunkInputs
    /\ chunkOut = <<>>
    /\ chunkDone = FALSE
    /\ TagTablesEmpty
    /\ filterOut = NoFilterCall
    /\ DocTablesEmpty
    /\ searchOut = NoSearchCall
    /\ lastCall = NoCall

\* A call of buildChunks on the arguments chunkIn.
BuildChunksCall ==
    /\ ~chunkDone
    /\ chunkOut' = buildChunks(chunkIn.documentId, chunkIn.pages,
                               chunkIn.chunkSize, chunkIn.overlap)
    /\ chunkDone' = TRUE
    /\ UNCHANGED <<outsideVars, chunkIn, tagVars, filterOut, docVars, searchOut, lastCall>>

\* A second call of buildChunks on the same arguments.
BuildChunksAgain ==
    /\ chunkDone
    /\ lastCall = NoCall
    /\ lastCall' = [op |-> "buildChunks",
                    chunks |-> buildChunks(chunkIn.documentId, chunkIn.pages,
                                           chunkIn.chunkSize, chunkIn.overlap)]
    /\ UNCHANGED <<outsideVars, chunkVars, tagVars, filterOut, docVars, searchOut>>

NextChunk == BuildChunksCall \/ BuildChunksAgain

SpecChunk == InitChunk /\ [][NextChunk]_vars

-----------------------------------------------------------------------------
(* Tags: lib/server/documents.ts.                                          *)

Range(f) == {f[i] : i \in DOMAIN f}

\* [...new Set(list)]: the first occurrence of every element, in order.
RECURSIVE Dedupe(_)
Dedupe(list) ==
    IF list = <<>> THEN <<>>
    ELSE LET init == Dedupe(SubSeq(list, 1, Len(list) - 1))
             last == list[Len(list)]
         IN  IF last \in Range(init) THEN init ELSE Append(init, last)

\* normalizeTagName: input.trim().toLowerCase().
normalizeTagName(input) == ToLower(Trim(input))

\* [...new Set(names.map(normalizeTagName).filter(Boolean))].
NormalizeNames(names) ==
    Dedupe(FilterNonEmpty([i \in 1..Len(names) |-> normalizeTagName(names[i])]))

\* db.select().from(tags).where(inArray(tags.name, names)).
SelectTagsByName(tagsTbl, names) ==
    SelectSeq(tagsTbl, LAMBDA row : row.name \in Range(names))

\* upsertTagsByName: the tags table afterwards and the rows returned. An id
\* minted by crypto.randomUUID() is modelled by the row's position.
upsertTagsByName(tagsTbl, names) ==
    LET normalized == NormalizeNames(names)
        existing == {normalizeTagName(tagsTbl[i].name) : i \in DOMAIN tagsTbl}
        missing == SelectSeq(normalized, LAMBDA name : name \notin existing)
        inserted == tagsTbl \o
            [i \in 1..Len(missing) |-> [id |-> Len(tagsTbl) + i, name |-> missing[i]]]
    IN  IF normalized = <<>> THEN [tags |-> tagsTbl, rows |-> <<>>]
        ELSE [tags |-> inserted, rows |-> SelectTagsByName(inserted, normalized)]

\* As setDocumentTags, but the rows the document had are kept.
setDocumentTags_Merges(tagsTbl, docTagsTbl, documentId, tagNames) ==
    LET up == upsertTagsByName(tagsTbl, tagNames)
    IN  [tags |-> up.tags,
         documentTags |-> docTagsTbl \o
            [i \in 1..Len(up.rows) |->
                [documentId |-> documentId, tagId |-> up.rows[i].id]]]

\* setDocumentTags: both tables afterwards.
setDocumentTags(tagsTbl, docTagsTbl, documentId, tagNames) ==
    LET deleted == SelectSeq(docTagsTbl, LAMBDA row : row.documentId # documentId)
        up == upsertTagsByName(tagsTbl, tagNames)
    IN  [tags |-> up.tags,
         documentTags |-> deleted \o
            [i \in 1..Len(up.rows) |->
                [documentId |-> documentId, tagId |-> up.rows[i].id]]]

\* The number of rows of a document among relation rows.
CountRows(rows, documentId) ==
    Cardinality({i \in DOMAIN rows : rows[i].documentId = documentId})

\* filterDocumentsByTagNames with the count test >= 1: any requested tag is
\* enough (OR instead of AND).
filterDocumentsByTagNames_AnyTag(tagsTbl, docTagsTbl, tagNames) ==
    LET normalized == NormalizeNames(tagNames)
        tagRows == SelectTagsByName(tagsTbl, normalized)
        tagIds == {tagRows[i].id : i \in DOMAIN tagRows}
        relationRows == SelectSeq(docTagsTbl, LAMBDA row : row.tagId \in tagIds)
        counted == Dedupe([i \in 1..Len(relationRows) |-> relationRows[i].documentId])
    IN  IF normalized = <<>>
        THEN [null |-> TRUE, ids |-> <<>>, readRelations |-> FALSE]
        ELSE IF Len(tagRows) # Len(normalized)
        THEN [null |-> FALSE, ids |-> <<>>, readRelations |-> FALSE]
        ELSE [null |-> FALSE,
              ids |-> SelectSeq(counted,
                        LAMBDA d : CountRows(relationRows, d) >= 1),
              readRelations |-> TRUE]

\* filterDocumentsByTagNames without the early return for a name that is no
\* tag.
filterDocumentsByTagNames_NoShortCircuit(tagsTbl, docTagsTbl, tagNames) ==
    LET normalized == NormalizeNames(tagNames)
        tagRows == SelectTagsByName(tagsTbl, normalized)
        tagIds == {tagRows[i].id : i \in DOMAIN tagRows}
        relationRows == SelectSeq(docTagsTbl, LAMBDA row : row.tagId \in tagIds)
        counted == Dedupe([i \in 1..Len(relationRows) |-> relationRows[i].documentId])
    IN  IF normalized = <<>>
        THEN [null |-> TRUE, ids |-> <<>>, readRelations |-> FALSE]
        ELSE [null |-> FALSE,
              ids |-> SelectSeq(counted,
                        LAMBDA d : CountRows(relationRows, d) >= Len(tagRows)),
              readRelations |-> TRUE]

\* filterDocumentsByTagNames: null (no restriction), or the list of document
\* ids; readRelations tells whether document_tags was queried.
filterDocumentsByTagNames(tagsTbl, docTagsTbl, tagNames) ==
    LET normalized == NormalizeNames(tagNames)
        tagRows == SelectTagsByName(tagsTbl, normalized)
        tagIds == {tagRows[i].id : i \in DOMAIN tagRows}
        relationRows == SelectSeq(docTagsTbl, LAMBDA row : row.tagId \in tagIds)
        counted == Dedupe([i \in 1..Len(relationRows) |-> relationRows[i].documentId])
    IN  IF normalized = <<>>
        THEN [null |-> TRUE, ids |-> <<>>, readRelations |-> FALSE]
        ELSE IF Len(tagRows) # Len(normalized)
        THEN [null |-> FALSE, ids |-> <<>>, readRelations |-> FALSE]
        ELSE [null |-> FALSE,
              ids |-> SelectSeq(counted,
                        LAMBDA d : CountRows(relationRows, d) >= Len(tagRows)),
              readRelations |-> TRUE]

-----------------------------------------------------------------------------
(* Ingestion and removal: lib/server/documents.ts (indexer), and the       *)
(* upload action.                                                          *)

\* value.split(",").
RECURSIVE SplitOnComma(_, _)
SplitOnComma(s, cur) ==
    IF s = <<>> THEN <<cur>>
    ELSE IF Head(s) = "," THEN <<cur>> \o SplitOnComma(Tail(s), <<>>)
    ELSE SplitOnComma(Tail(s), Append(cur, Head(s)))

\* parseTagList: the normalized, de-duplicated names of a comma separated list.
parseTagList(value) == NormalizeNames(SplitOnComma(value, <<>>))

\* The tables and the vector collection as one record.
DbNow ==
    [tags |-> tags, documentTags |-> documentTags, documents |-> documents,
     documentText |-> documentText, documentPages |-> documentPages,
     chunks |-> chunks, chunkEmbeddings |-> chunkEmbeddings, chroma |-> chroma,
     notes |-> notes, noteTags |-> noteTags, noteLinks |-> noteLinks]

\* collection.upsert: an entry replaces the one with its id, or is added.
RECURSIVE ChromaUpsert(_, _)
ChromaUpsert(collection, entries) ==
    IF entries = <<>> THEN collection
    ELSE LET e == Head(entries)
             at == {i \in DOMAIN collection : collection[i].id = e.id}
             put == IF at = {} THEN Append(collection, e)
                    ELSE [i \in DOMAIN collection |->
                            IF i \in at THEN e ELSE collection[i]]
         IN  ChromaUpsert(put, Tail(entries))

\* The steps of ingestDocument that can throw, in the order they are made.
IngestSteps == <<"document", "text", "pages", "chunks", "embed", "upsert", "records">>

\* The tables and collection after one write of ingestDocument: the
\* Document row, the text row, the page rows, the chunk rows, the vectors
\* (one upsert for all chunks) or the embedding records. Creating the
\* embeddings writes nothing.
IngestWrite(db, input, textChunks, step) ==
    IF step = "document"
    THEN [db EXCEPT
            !.documents = Append(@, [id |-> input.documentId,
                                     title |-> input.title,
                                     descriptionMd |-> input.descriptionMd,
                                     pageCount |-> Len(input.pages)])]
    ELSE IF step = "text"
    THEN [db EXCEPT
            !.documentText = Append(@, [documentId |-> input.documentId,
                                        text |-> input.fullText])]
    ELSE IF step = "pages"
    THEN [db EXCEPT
            !.documentPages = @ \o
                [i \in 1..Len(input.pages) |->
                    [documentId |-> input.documentId,
                     page |-> input.pages[i].page,
                     text |-> input.pages[i].text]]]
    ELSE IF step = "chunks"
    THEN [db EXCEPT
            !.chunks = @ \o
                [i \in 1..Len(textChunks) |->
                    [id |-> textChunks[i].chunkId,
                     documentId |-> input.documentId,
                     pageStart |-> textChunks[i].pageStart,
                     pageEnd |-> textChunks[i].pageEnd,
                     chunkIndex |-> textChunks[i].chunkIndex,
                     text |-> textChunks[i].text]]]
    ELSE IF step = "upsert"
    THEN [db EXCEPT
            !.chroma = ChromaUpsert(@,
                [i \in 1..Len(textChunks) |->
                    [id |-> textChunks[i].chunkId,
                     metadata |-> [documentId |-> input.documentId,
                                   pageStart |-> textChunks[i].pageStart,
                                   pageEnd |-> textChunks[i].pageEnd,
                                   chunkId |-> textChunks[i].chunkId]]])]
    ELSE IF step = "records"
    THEN [db EXCEPT
            !.chunkEmbeddings = @ \o
                [i \in 1..Len(textChunks) |->
                    [chunkId |-> textChunks[i].chunkId,
                     chromaId |-> textChunks[i].chunkId]]]
    ELSE db

\* An ingestDocument call that threw at step n, leaving the tables as `at`.
IngestThrew(at, n) ==
    [db |-> at, ok |-> FALSE, chunkCount |-> 0, calls |-> SubSeq(IngestSteps, 1, n)]

\* An insert of ingestDocument meets a row with its primary key.
DocumentExists(db, documentId) ==
    \E i \in DOMAIN db.documents : db.documents[i].id = documentId

TextExists(db, documentId) ==
    \E i \in DOMAIN db.documentText : db.documentText[i].documentId = documentId

PageExists(db, documentId, pages) ==
    \E i \in DOMAIN db.documentPages, j \in DOMAIN pages :
        /\ db.documentPages[i].documentId = documentId
        /\ db.documentPages[i].page = pages[j].page

ChunkExists(db, textChunks) ==
    \E i \in DOMAIN db.chunks, j \in DOMAIN textChunks :
        db.chunks[i].id = textChunks[j].chunkId

RecordExists(db, textChunks) ==
    \E i \in DOMAIN db.chunkEmbeddings, j \in DOMAIN textChunks :
        db.chunkEmbeddings[i].chunkId = textChunks[j].chunkId

\* The insert of a step is refused by the primary key of its table.
IngestConflict(db, input, textChunks, step) ==
    \/ step = "document" /\ DocumentExists(db, input.documentId)
    \/ step = "text" /\ TextExists(db, input.documentId)
    \/ step = "pages" /\ PageExists(db, input.documentId, input.pages)
    \/ step = "chunks" /\ ChunkExists(db, textChunks)
    \/ step = "records" /\ RecordExists(db, textChunks)

\* As IngestRun, but a step that throws for an outside reason is passed
\* over and the later steps are made.
RECURSIVE IngestRun_SkipsThrowingStep(_, _, _, _, _, _)
IngestRun_SkipsThrowingStep(db, input, textChunks, steps, n, fail) ==
    IF n > Len(steps)
    THEN [db |-> db, ok |-> TRUE, chunkCount |-> Len(textChunks), calls |-> steps]
    ELSE IF IngestConflict(db, input, textChunks, steps[n])
    THEN IngestThrew(db, n)
    ELSE IF fail = steps[n]
    THEN IngestRun_SkipsThrowingStep(db, input, textChunks, steps, n + 1, fail)
    ELSE IngestRun_SkipsThrowingStep(IngestWrite(db, input, textChunks, steps[n]),
                                     input, textChunks, steps, n + 1, fail)

\* The awaited steps of ingestDocument from step n on, in the order of the
\* code. A step that throws (for the outside reason `fail`, or on a
\* primary-key conflict) writes nothing and ends the call: no later step
\* is made and the error reaches the caller (ok = FALSE).
RECURSIVE IngestRun(_, _, _, _, _, _)
IngestRun(db, input, textChunks, steps, n, fail) ==
    IF n > Len(steps)
    THEN [db |-> db, ok |-> TRUE, chunkCount |-> Len(textChunks), calls |-> steps]
    ELSE IF fail = steps[n] \/ IngestConflict(db, input, textChunks, steps[n])
    THEN IngestThrew(db, n)
    ELSE IngestRun(IngestWrite(db, input, textChunks, steps[n]),
                   input, textChunks, steps, n + 1, fail)

\* As IngestPlan, but without the early return for a text without words.
IngestPlan_NoEarlyReturn(textChunks) == IngestSteps

\* The steps of ingestDocument for the chunks built: a text without words
\* ends the call after the page rows with chunkCount 0.
IngestPlan(textChunks) ==
    IF textChunks = <<>> THEN SubSeq(IngestSteps, 1, 3) ELSE IngestSteps

\* ingestDocument(input) on the tables and collection db. `fail` names the
\* step that throws for an outside reason, if any. The result is the
\* tables and collection afterwards, the outcome, the chunkCount returned
\* and the steps made, in order.
ingestDocument(db, input, fail) ==
    IngestRun(db, input,
              buildChunks(input.documentId, input.pages,
                          ScaledChunkSize, ScaledOverlap),
              IngestPlan(buildChunks(input.documentId, input.pages,
                                     ScaledChunkSize, ScaledOverlap)),
              1, fail)

\* extractPdfTextFromBytes: the pages numbered from 1 with their text
\* trimmed, and the full text (the pages joined by a blank line).
ExtractPages(pageTexts) ==
    [i \in 1..Len(pageTexts) |-> [page |-> i, text |-> Trim(pageTexts[i])]]

ExtractFullText(pageTexts) ==
    Join([i \in 1..Len(pageTexts) |-> Trim(pageTexts[i])], <<"\n", "\n">>)

\* uploadDocumentAction once the file is parsed: ingestDocument, then
\* setDocumentTags with the parsed tag list; an ingestion that throws ends
\* the action before the tags are set.
uploadDocumentAction(db, documentId, form) ==
    LET ingested == ingestDocument(db,
            [documentId |-> documentId,
             title |-> form.title,
             descriptionMd |-> form.descriptionMd,
             pages |-> ExtractPages(form.pageTexts),
             fullText |-> ExtractFullText(form.pageTexts)], "none")
        tagged == setDocumentTags(ingested.db.tags, ingested.db.documentTags,
                                  documentId, parseTagList(form.tagsCsv))
    IN  IF ~ingested.ok THEN ingested.db
        ELSE [ingested.db EXCEPT !.tags = tagged.tags,
                                 !.documentTags = tagged.documentTags]

\* crypto.randomUUID(): an id no row in use has.
FreshId(used) == CHOOSE n \in 1..(Cardinality(used) + 1) : n \notin used

\* setNoteTags: the tags and note_tags tables afterwards.
setNoteTags(tagsTbl, noteTagsTbl, noteId, tagNames) ==
    LET deleted == SelectSeq(noteTagsTbl, LAMBDA row : row.noteId # noteId)
        up == upsertTagsByName(tagsTbl, tagNames)
    IN  [tags |-> up.tags,
         noteTags |-> deleted \o
            [i \in 1..Len(up.rows) |->
                [noteId |-> noteId, tagId |-> up.rows[i].id]]]

\* As setNoteLinks, but without the look-up of the documents named.
setNoteLinks_NoLookup(db, noteId, linkedDocumentIds) ==
    LET deleted == SelectSeq(db.noteLinks, LAMBDA row : row.noteId # noteId)
        uniqueIds == Dedupe(linkedDocumentIds)
    IN  [db EXCEPT !.noteLinks = deleted \o
            [i \in 1..Len(uniqueIds) |->
                [noteId |-> noteId, linkedDocumentId |-> uniqueIds[i]]]]

\* setNoteLinks: the links of the note are replaced by one link for every
\* distinct id given that is the id of a stored document. Ids are given
\* already split and trimmed; a link row's own id is read nowhere and is
\* left out.
setNoteLinks(db, noteId, linkedDocumentIds) ==
    LET deleted == SelectSeq(db.noteLinks, LAMBDA row : row.noteId # noteId)
        validIds == SelectSeq(Dedupe(linkedDocumentIds),
                              LAMBDA id : \E i \in DOMAIN db.documents :
                                              db.documents[i].id = id)
    IN  [db EXCEPT !.noteLinks = deleted \o
            [i \in 1..Len(validIds) |->
                [noteId |-> noteId, linkedDocumentId |-> validIds[i]]]]

\* The note row inserted by createNoteFromSelectionAction; the document
\* named is not looked up.
InsertNote(db, noteId, documentId) ==
    [db EXCEPT !.notes = Append(@, [id |-> noteId, documentId |-> documentId])]

\* The tables after setNoteTags.
WithNoteTags(db, noteId, tagNames) ==
    [db EXCEPT
        !.tags = setNoteTags(db.tags, db.noteTags, noteId, tagNames).tags,
        !.noteTags = setNoteTags(db.tags, db.noteTags, noteId, tagNames).noteTags]

\* createNoteFromSelectionAction on a form naming the document, the tag
\* list, the linked ids typed and the ids of doc:// links in the text: the
\* note row is inserted, then its tags and its links are set.
createNoteFromSelectionAction(db, noteId, form) ==
    setNoteLinks(
        WithNoteTags(InsertNote(db, noteId, form.documentId), noteId,
                     parseTagList(form.tagsCsv)),
        noteId,
        Dedupe(form.linkedDocumentIds \o form.markdownIds))

\* The ids of the chunks and of the notes of a document.
ChunkIdsOf(db, documentId) ==
    {db.chunks[i].id : i \in
        {j \in DOMAIN db.chunks : db.chunks[j].documentId = documentId}}

NoteIdsOf(db, documentId) ==
    {db.notes[i].id : i \in
        {j \in DOMAIN db.notes : db.notes[j].documentId = documentId}}

\* As RemoveSteps, but the links that point to the document are kept.
RemoveSteps_KeepsLinksTo(db, documentId) ==
    (IF ChunkIdsOf(db, documentId) # {} THEN <<"records", "chunks">> ELSE <<>>)
    \o <<"text", "pages">>
    \o (IF NoteIdsOf(db, documentId) # {}
        THEN <<"noteTags", "noteLinks", "notes">> ELSE <<>>)
    \o <<"documentTags", "document">>

\* As RemoveSteps, but the Chunk rows are deleted before their Embedding
\* records.
RemoveSteps_ChunksFirst(db, documentId) ==
    (IF ChunkIdsOf(db, documentId) # {} THEN <<"chunks", "records">> ELSE <<>>)
    \o <<"text", "pages", "linksTo">>
    \o (IF NoteIdsOf(db, documentId) # {}
        THEN <<"noteTags", "noteLinks", "notes">> ELSE <<>>)
    \o <<"documentTags", "document">>

\* The deletes removeDocumentArtifacts makes, in order: those of chunk rows
\* and of note rows are made only when the document has chunks, has notes.
RemoveSteps(db, documentId) ==
    (IF ChunkIdsOf(db, documentId) # {} THEN <<"records", "chunks">> ELSE <<>>)
    \o <<"text", "pages", "linksTo">>
    \o (IF NoteIdsOf(db, documentId) # {}
        THEN <<"noteTags", "noteLinks", "notes">> ELSE <<>>)
    \o <<"documentTags", "document">>

\* One delete of removeDocumentArtifacts; ids and noteIds are the chunk and
\* note ids it selected.
RemoveStep(db, documentId, ids, noteIds, step) ==
    CASE step = "records" ->
            [db EXCEPT !.chunkEmbeddings = SelectSeq(@, LAMBDA row : row.chunkId \notin ids)]
      [] step = "chunks" ->
            [db EXCEPT !.chunks = SelectSeq(@, LAMBDA row : row.id \notin ids)]
      [] step = "text" ->
            [db EXCEPT !.documentText = SelectSeq(@, LAMBDA row : row.documentId # documentId)]
      [] step = "pages" ->
            [db EXCEPT !.documentPages = SelectSeq(@, LAMBDA row : row.documentId # documentId)]
      [] step = "linksTo" ->
            [db EXCEPT !.noteLinks = SelectSeq(@, LAMBDA row : row.linkedDocumentId # documentId)]
      [] step = "noteTags" ->
            [db EXCEPT !.noteTags = SelectSeq(@, LAMBDA row : row.noteId \notin noteIds)]
      [] step = "noteLinks" ->
            [db EXCEPT !.noteLinks = SelectSeq(@, LAMBDA row : row.noteId \notin noteIds)]
      [] step = "notes" ->
            [db EXCEPT !.notes = SelectSeq(@, LAMBDA row : row.id \notin noteIds)]
      [] step = "documentTags" ->
            [db EXCEPT !.documentTags = SelectSeq(@, LAMBDA row : row.documentId # documentId)]
      [] step = "document" ->
            [db EXCEPT !.documents = SelectSeq(@, LAMBDA row : row.id # documentId)]

\* The deletes of removeDocumentArtifacts from `steps` on, up to the one
\* that throws.
RECURSIVE RemoveRun(_, _, _, _, _, _)
RemoveRun(db, documentId, ids, noteIds, steps, fail) ==
    IF steps = <<>> THEN [db |-> db, ok |-> TRUE]
    ELSE IF Head(steps) = fail THEN [db |-> db, ok |-> FALSE]
    ELSE RemoveRun(RemoveStep(db, documentId, ids, noteIds, Head(steps)),
                   documentId, ids, noteIds, Tail(steps), fail)

\* removeDocumentArtifacts(documentId): the rows of the document are deleted
\* table by table; the vector collection is not touched. `fail` names the
\* delete that throws, if any.
removeDocumentArtifacts(db, documentId, fail) ==
    RemoveRun(db, documentId, ChunkIdsOf(db, documentId), NoteIdsOf(db, documentId),
              RemoveSteps(db, documentId), fail)

-----------------------------------------------------------------------------
(* Hybrid search: searchDocumentsAction.                                   *)

\* String.prototype.includes.
Includes(hay, needle) ==
    \E i \in 0..(Len(hay) - Len(needle)) :
        SubSeq(hay, i + 1, i + Len(needle)) = needle

\* String.prototype.indexOf: the first 0-based position, or -1.
IndexOf(hay, needle) ==
    LET at == {i \in 0..(Len(hay) - Len(needle)) :
                  SubSeq(hay, i + 1, i + Len(needle)) = needle}
    IN  IF at = {} THEN -1 ELSE CHOOSE i \in at : \A j \in at : i <= j

\* String.prototype.slice(start, end) for 0 <= start.
Slice(text, start, end) == SubSeq(text, start + 1, Min(end, Len(text)))

\* The scoring constants of the keyword pass.
BaseScore == 10

TitleBonus == 20

DescriptionBonus == 8

TagBonus == 6

\* The scoring constants of the semantic pass.
SemanticWeight == 30

SnippetDelta == 5

\* The snippet window of findSnippet and the snippet length cap.
SnippetBefore == 80

SnippetAfter == 160

SnippetCap == 240

\* The bounds of the vector query size: Math.min(50, limit * 4).
QueryCap == 50

QueryFactor == 4

\* The largest limit searchSchema accepts.
SchemaMaxLimit == 100

\* Distances are counted in tenths: this is the distance 1.
OneDistance == 10

\* A metadata without a string chunkId, a distance that is no number, a
\* null page.
NoChunkId == <<>>

NoDistance == -1

NoPage == 0

\* findSnippet(text, query).
findSnippet(text, query) ==
    LET lower == ToLower(text)
        lowerQuery == ToLower(query)
        index == IndexOf(lower, lowerQuery)
    IN  IF text = <<>> THEN <<>>
        ELSE IF index = -1 THEN Slice(text, 0, SnippetCap)
        ELSE Slice(text, Max(0, index - SnippetBefore),
                   Min(Len(text), index + Len(lowerQuery) + SnippetAfter))

\* textByDoc.get(doc.id) ?? "".
TextOf(db, documentId) ==
    LET at == {i \in DOMAIN db.documentText :
                  db.documentText[i].documentId = documentId}
    IN  IF at = {} THEN <<>>
        ELSE db.documentText[CHOOSE i \in at : \A j \in at : j <= i].text

\* values.sort((left, right) => left.page - right.page): a stable sort of
\* page rows by page number.
RECURSIVE SortPages(_)
SortPages(rows) ==
    IF rows = <<>> THEN <<>>
    ELSE LET init == SortPages(SubSeq(rows, 1, Len(rows) - 1))
             last == rows[Len(rows)]
             keep == Cardinality({i \in DOMAIN init : init[i].page <= last.page})
         IN  SubSeq(init, 1, keep) \o <<last>> \o SubSeq(init, keep + 1, Len(init))

\* pagesByDoc.get(doc.id): the page rows of a document, sorted by page.
PagesOf(db, documentId) ==
    SortPages(SelectSeq(db.documentPages, LAMBDA row : row.documentId = documentId))

\* The tag name of a tag id (tag ids are unique).
TagNameOf(db, tagId) ==
    db.tags[CHOOSE i \in DOMAIN db.tags : db.tags[i].id = tagId].name

\* docTagsByDoc.get(doc.id) ?? []: the names of the document's tags, from
\* document_tags inner join tags, in row order.
DocTagNames(db, documentId) ==
    LET rows == SelectSeq(db.documentTags, LAMBDA row :
                    /\ row.documentId = documentId
                    /\ \E i \in DOMAIN db.tags : db.tags[i].id = row.tagId)
    IN  [i \in 1..Len(rows) |-> TagNameOf(db, rows[i].tagId)]

\* scores.get(documentId): the position of the entry, or 0.
ScoreIndex(scores, documentId) ==
    LET at == {i \in DOMAIN scores : scores[i].documentId = documentId}
    IN  IF at = {} THEN 0 ELSE CHOOSE i \in at : TRUE

\* scores.set(documentId, value): a Map keeps the place of an existing key
\* and adds a new key at the end.
ScoreSet(scores, entry) ==
    LET at == ScoreIndex(scores, entry.documentId)
    IN  IF at = 0 THEN Append(scores, entry)
        ELSE [scores EXCEPT ![at] = entry]

\* A keyword score that gives the description the bonus of the title and
\* the title that of the description.
KeywordScore_SwapsBonuses(title, description, tagText, normalizedQuery) ==
    BaseScore
    + (IF Includes(ToLower(title), normalizedQuery) THEN DescriptionBonus ELSE 0)
    + (IF Includes(ToLower(description), normalizedQuery) THEN TitleBonus ELSE 0)
    + (IF Includes(ToLower(tagText), normalizedQuery) THEN TagBonus ELSE 0)

\* The keyword score of one document: the base and the three bonuses.
KeywordScore(title, description, tagText, normalizedQuery) ==
    BaseScore
    + (IF Includes(ToLower(title), normalizedQuery) THEN TitleBonus ELSE 0)
    + (IF Includes(ToLower(description), normalizedQuery) THEN DescriptionBonus ELSE 0)
    + (IF Includes(ToLower(tagText), normalizedQuery) THEN TagBonus ELSE 0)

\* The first page row whose lower-cased text includes the query, as a list
\* of at most one row.
MatchedPage(pages, normalizedQuery) ==
    LET at == {i \in DOMAIN pages : Includes(ToLower(pages[i].text), normalizedQuery)}
    IN  IF at = {} THEN <<>>
        ELSE <<pages[CHOOSE i \in at : \A j \in at : i <= j]>>

\* The body of the keyword loop for one document: scores afterwards.
KeywordStep(db, scores, doc, normalizedQuery, query) ==
    LET fullText == TextOf(db, doc.id)
        description == doc.descriptionMd
        tagText == Join(DocTagNames(db, doc.id), <<" ">>)
        haystack == ToLower(doc.title \o <<"\n">> \o description \o <<"\n">>
                            \o tagText \o <<"\n">> \o fullText)
        matched == MatchedPage(PagesOf(db, doc.id), normalizedQuery)
        snippetSource == IF matched # <<>> THEN matched[1].text
                         ELSE description \o <<"\n">> \o fullText
    IN  IF ~Includes(haystack, normalizedQuery) THEN scores
        ELSE ScoreSet(scores,
                [documentId |-> doc.id,
                 score |-> KeywordScore(doc.title, description, tagText, normalizedQuery),
                 reasons |-> <<"keyword">>,
                 snippet |-> findSnippet(snippetSource, query),
                 page |-> IF matched # <<>> THEN matched[1].page ELSE NoPage])

\* The keyword loop over the candidate documents.
RECURSIVE KeywordPass(_, _, _, _, _)
KeywordPass(db, scores, docs, normalizedQuery, query) ==
    IF docs = <<>> THEN scores
    ELSE KeywordPass(db, KeywordStep(db, scores, Head(docs), normalizedQuery, query),
                     Tail(docs), normalizedQuery, query)

\* A boost without Math.max: negative beyond the distance 1.
SemanticBoost_NoClamp(distance) ==
    ((OneDistance - distance) * SemanticWeight) \div OneDistance

\* Math.max(0, 1 - distance) * 30, with the distance in tenths.
SemanticBoost(distance) ==
    (Max(0, OneDistance - distance) * SemanticWeight) \div OneDistance

\* chunkById.get(chunkId), as a list of at most one chunk row.
ChunkById(db, chunkId) ==
    SelectSeq(db.chunks, LAMBDA row : row.id = chunkId)

\* A loop body without the check of the chunk's document against the tag
\* filter.
SemanticStep_NoTagCheck(db, scores, filtered, row) ==
    LET found == ChunkById(db, row.chunkId)
        chunk == found[Len(found)]
        distance == IF row.distance = NoDistance THEN OneDistance ELSE row.distance
        at == ScoreIndex(scores, chunk.documentId)
        current == IF at # 0 THEN scores[at]
                   ELSE [documentId |-> chunk.documentId, score |-> 0,
                         reasons |-> <<>>, snippet |-> <<>>, page |-> NoPage]
        nextScore == current.score + SemanticBoost(distance)
    IN  IF row.chunkId = NoChunkId THEN scores
        ELSE IF found = <<>> THEN scores
        ELSE ScoreSet(scores,
                [documentId |-> chunk.documentId,
                 score |-> nextScore,
                 reasons |-> Dedupe(Append(current.reasons, "semantic")),
                 snippet |-> IF current.snippet = <<>> \/ nextScore > current.score + SnippetDelta
                             THEN Slice(chunk.text, 0, SnippetCap)
                             ELSE current.snippet,
                 page |-> IF current.page # NoPage THEN current.page
                          ELSE chunk.pageStart])

\* A loop body that takes the snippet of every chunk it scores.
SemanticStep_AlwaysReplaces(db, scores, filtered, row) ==
    LET found == ChunkById(db, row.chunkId)
        chunk == found[Len(found)]
        distance == IF row.distance = NoDistance THEN OneDistance ELSE row.distance
        at == ScoreIndex(scores, chunk.documentId)
        current == IF at # 0 THEN scores[at]
                   ELSE [documentId |-> chunk.documentId, score |-> 0,
                         reasons |-> <<>>, snippet |-> <<>>, page |-> NoPage]
    IN  IF row.chunkId = NoChunkId THEN scores
        ELSE IF found = <<>> THEN scores
        ELSE IF ~filtered.null /\ chunk.documentId \notin Range(filtered.ids) THEN scores
        ELSE ScoreSet(scores,
                [documentId |-> chunk.documentId,
                 score |-> current.score + SemanticBoost(distance),
                 reasons |-> Dedupe(Append(current.reasons, "semantic")),
                 snippet |-> Slice(chunk.text, 0, SnippetCap),
                 page |-> IF current.page # NoPage THEN current.page
                          ELSE chunk.pageStart])

\* The body of metadatas.forEach for one returned row: scores afterwards.
\* `filtered` is what the tag filter returned.
SemanticStep(db, scores, filtered, row) ==
    LET found == ChunkById(db, row.chunkId)
        chunk == found[Len(found)]
        distance == IF row.distance = NoDistance THEN OneDistance ELSE row.distance
        semanticBoost == SemanticBoost(distance)
        at == ScoreIndex(scores, chunk.documentId)
        current == IF at # 0 THEN scores[at]
                   ELSE [documentId |-> chunk.documentId, score |-> 0,
                         reasons |-> <<>>, snippet |-> <<>>, page |-> NoPage]
        nextScore == current.score + semanticBoost
    IN  IF row.chunkId = NoChunkId THEN scores
        ELSE IF found = <<>> THEN scores
        ELSE IF ~filtered.null /\ chunk.documentId \notin Range(filtered.ids) THEN scores
        ELSE ScoreSet(scores,
                [documentId |-> chunk.documentId,
                 score |-> nextScore,
                 reasons |-> Dedupe(Append(current.reasons, "semantic")),
                 snippet |-> IF current.snippet = <<>> \/ nextScore > current.score + SnippetDelta
                             THEN Slice(chunk.text, 0, SnippetCap)
                             ELSE current.snippet,
                 page |-> IF current.page # NoPage THEN current.page
                          ELSE chunk.pageStart])

\* metadatas.forEach over the returned rows.
RECURSIVE SemanticLoop(_, _, _, _)
SemanticLoop(db, scores, filtered, rows) ==
    IF rows = <<>> THEN scores
    ELSE SemanticLoop(db, SemanticStep(db, scores, filtered, Head(rows)),
                      filtered, Tail(rows))

\* A semantic pass in which a failing chunk lookup does not stop the loop
\* over the returned rows.
SemanticPass_IgnoresLookupFailure(db, scores, filtered, rows, fail) ==
    IF fail = "health" THEN [scores |-> scores, calls |-> <<"health">>]
    ELSE IF fail = "embed"
    THEN [scores |-> scores, calls |-> <<"health", "embed">>]
    ELSE IF fail = "query"
    THEN [scores |-> scores, calls |-> <<"health", "embed", "query">>]
    ELSE [scores |-> SemanticLoop(db, scores, filtered, rows),
          calls |-> <<"health", "embed", "query", "chunks">>]

\* The try block of the semantic pass: the health check, the query
\* embedding, the vector query, the chunk lookup (made only when a row names
\* a chunk) and the loop. `fail` names the step that throws, if any; the
\* catch block swallows the error. The result is the scores afterwards and
\* the calls made.
SemanticPass(db, scores, filtered, rows, fail) ==
    LET named == SelectSeq(rows, LAMBDA row : row.chunkId # NoChunkId)
    IN  IF fail = "health" THEN [scores |-> scores, calls |-> <<"health">>]
        ELSE IF fail = "embed"
        THEN [scores |-> scores, calls |-> <<"health", "embed">>]
        ELSE IF fail = "query"
        THEN [scores |-> scores, calls |-> <<"health", "embed", "query">>]
        ELSE IF named = <<>>
        THEN [scores |-> SemanticLoop(db, scores, filtered, rows),
              calls |-> <<"health", "embed", "query">>]
        ELSE IF fail = "chunks"
        THEN [scores |-> scores, calls |-> <<"health", "embed", "query", "chunks">>]
        ELSE [scores |-> SemanticLoop(db, scores, filtered, rows),
              calls |-> <<"health", "embed", "query", "chunks">>]

\* A descending sort that puts a hit before the earlier hits of its score.
RECURSIVE SortHits_TiesReversed(_)
SortHits_TiesReversed(hits) ==
    IF hits = <<>> THEN <<>>
    ELSE LET init == SortHits_TiesReversed(SubSeq(hits, 1, Len(hits) - 1))
             last == hits[Len(hits)]
             keep == Cardinality({i \in DOMAIN init : init[i].score > last.score})
         IN  SubSeq(init, 1, keep) \o <<last>> \o SubSeq(init, keep + 1, Len(init))

\* hits.sort((a, b) => b.score - a.score): a stable sort, descending by score.
RECURSIVE SortHits(_)
SortHits(hits) ==
    IF hits = <<>> THEN <<>>
    ELSE LET init == SortHits(SubSeq(hits, 1, Len(hits) - 1))
             last == hits[Len(hits)]
             keep == Cardinality({i \in DOMAIN init : init[i].score >= last.score})
         IN  SubSeq(init, 1, keep) \o <<last>> \o SubSeq(init, keep + 1, Len(init))

\* The hits of the scored documents: entries without a document row among
\* docs are dropped, the rest sorted and cut to the limit.
BuildHits(docs, scores, limit) ==
    LET known == SelectSeq(scores, LAMBDA e :
                    \E i \in DOMAIN docs : docs[i].id = e.documentId)
        hits == [i \in 1..Len(known) |->
                    [documentId |-> known[i].documentId,
                     title |-> docs[CHOOSE j \in DOMAIN docs :
                                        docs[j].id = known[i].documentId].title,
                     page |-> known[i].page,
                     score |-> known[i].score,
                     reasons |-> known[i].reasons,
                     snippet |-> known[i].snippet]]
    IN  Slice(SortHits(hits), 0, limit)

\* As SchemaAccepts, but without the minimum length of the query.
SchemaAccepts_AnyQuery(query, limit) == limit \in 1..SchemaMaxLimit

\* searchSchema.parse: a query of at least one character and a limit in
\* 1..100.
SchemaAccepts(query, limit) ==
    /\ Len(query) >= 1
    /\ limit \in 1..SchemaMaxLimit

\* A search that takes an empty filter result for no restriction.
searchDocumentsAction_EmptyMeansAll(db, query, tagNamesCsv, limit, rows, fail) ==
    LET normalizedQuery == ToLower(Trim(query))
        tagNames == parseTagList(tagNamesCsv)
        found == filterDocumentsByTagNames(db.tags, db.documentTags, tagNames)
        filtered == IF found.ids = <<>> THEN [found EXCEPT !.null = TRUE] ELSE found
        docs == IF filtered.null THEN db.documents
                ELSE SelectSeq(db.documents, LAMBDA row : row.id \in Range(filtered.ids))
        keyword == KeywordPass(db, <<>>, docs, normalizedQuery, query)
        semantic == SemanticPass(db, keyword, filtered, rows, fail)
    IN  IF ~SchemaAccepts(query, limit)
        THEN [ok |-> FALSE, data |-> <<>>, calls |-> <<>>,
              keyword |-> <<>>, scores |-> <<>>]
        ELSE IF docs = <<>>
        THEN [ok |-> TRUE, data |-> <<>>, calls |-> <<"filter", "documents">>,
              keyword |-> <<>>, scores |-> <<>>]
        ELSE [ok |-> TRUE,
              data |-> BuildHits(docs, semantic.scores, limit),
              calls |-> <<"filter", "documents", "texts", "pages", "tags">>
                        \o semantic.calls,
              keyword |-> keyword, scores |-> semantic.scores]

\* searchDocumentsAction on the form fields query, tagNamesCsv and limit,
\* where the vector query would return `rows` and `fail` names the step of
\* the semantic pass that throws, if any. The result is the envelope (ok,
\* data), the collaborators called, in order, and the scores Map as it was
\* after the keyword loop (keyword) and after the semantic pass (scores).
searchDocumentsAction(db, query, tagNamesCsv, limit, rows, fail) ==
    LET normalizedQuery == ToLower(Trim(query))
        tagNames == parseTagList(tagNamesCsv)
        filtered == filterDocumentsByTagNames(db.tags, db.documentTags, tagNames)
        docs == IF filtered.null THEN db.documents
                ELSE SelectSeq(db.documents, LAMBDA row : row.id \in Range(filtered.ids))
        keyword == KeywordPass(db, <<>>, docs, normalizedQuery, query)
        semantic == SemanticPass(db, keyword, filtered, rows, fail)
    IN  IF ~SchemaAccepts(query, limit)
        THEN [ok |-> FALSE, data |-> <<>>, calls |-> <<>>,
              keyword |-> <<>>, scores |-> <<>>]
        ELSE IF ~filtered.null /\ filtered.ids = <<>>
        THEN [ok |-> TRUE, data |-> <<>>, calls |-> <<"filter">>,
              keyword |-> <<>>, scores |-> <<>>]
        ELSE IF docs = <<>>
        THEN [ok |-> TRUE, data |-> <<>>, calls |-> <<"filter", "documents">>,
              keyword |-> <<>>, scores |-> <<>>]
        ELSE [ok |-> TRUE,
              data |-> BuildHits(docs, semantic.scores, limit),
              calls |-> <<"filter", "documents", "texts", "pages", "tags">>
                        \o semantic.calls,
              keyword |-> keyword, scores |-> semantic.scores]

-----------------------------------------------------------------------------
(* The tag calls under study.                                              *)

\* Tag names as callers type them: empty, blank, padded, upper case.
RawTagNames ==
    {<<>>, <<" ">>, <<"a">>, <<" ", "A">>, <<"b">>, <<"B", " ">>}

\* Lists of at most n raw tag names.
RECURSIVE NameLists(_)
NameLists(n) ==
    IF n = 0 THEN {<<>>}
    ELSE LET shorter == NameLists(n - 1)
         IN  shorter \cup {Append(l, name) : l \in shorter, name \in RawTagNames}

DocIds == 1..MaxDocs

InitTags ==
    /\ GatewayIdle
    /\ ChunkIdle
    /\ TagTablesEmpty
    /\ filterOut = NoFilterCall
    /\ DocTablesEmpty
    /\ searchOut = NoSearchCall
    /\ lastCall = NoCall

\* A call setDocumentTags(documentId, tagNames), made while no filter result
\* is outstanding.
SetDocumentTagsCall ==
    /\ ~filterOut.called
    /\ \E documentId \in DocIds, tagNames \in NameLists(MaxNames) :
        LET after == setDocumentTags(tags, documentTags, documentId, tagNames)
        IN  /\ tags' = after.tags
            /\ documentTags' = after.documentTags
            /\ UNCHANGED <<outsideVars, chunkVars, filterOut, docVars, searchOut, lastCall>>

\* A call filterDocumentsByTagNames(tagNames); its result stays outstanding
\* until the caller has taken it.
FilterDocumentsCall ==
    /\ ~filterOut.called
    /\ \E tagNames \in NameLists(MaxNames) :
        LET out == filterDocumentsByTagNames(tags, documentTags, tagNames)
        IN  /\ filterOut' = [called |-> TRUE, tagNames |-> tagNames,
                             null |-> out.null, ids |-> out.ids,
                             readRelations |-> out.readRelations]
            /\ UNCHANGED <<outsideVars, chunkVars, tagVars, docVars, searchOut, lastCall>>

\* The caller takes the outstanding filter result.
FilterDocumentsReturn ==
    /\ filterOut.called
    /\ filterOut' = NoFilterCall
    /\ UNCHANGED <<outsideVars, chunkVars, tagVars, docVars, searchOut, lastCall>>

NextTags == SetDocumentTagsCall \/ FilterDocumentsCall \/ FilterDocumentsReturn

SpecTags == InitTags /\ [][NextTags]_vars

\* A call setDocumentTags(documentId, tagNames) kept for study with the
\* tables it started from.
SetDocumentTagsStudied ==
    /\ lastCall = NoCall
    /\ \E documentId \in DocIds, tagNames \in NameLists(MaxNames) :
        LET after == setDocumentTags(tags, documentTags, documentId, tagNames)
        IN  /\ tags' = after.tags
            /\ documentTags' = after.documentTags
            /\ lastCall' = [op |-> "setDocumentTags", documentId |-> documentId,
                            tagNames |-> tagNames, before |-> DbNow]
    /\ UNCHANGED <<outsideVars, chunkVars, filterOut, docVars, searchOut>>

\* The caller has taken the result of the call under study.
CallReturn ==
    /\ lastCall # NoCall
    /\ lastCall' = NoCall
    /\ UNCHANGED <<outsideVars, chunkVars, tagVars, filterOut, docVars, searchOut>>

NextSetTags == SetDocumentTagsStudied \/ CallReturn

SpecSetTags == InitTags /\ [][NextSetTags]_vars

-----------------------------------------------------------------------------
(* Two setDocumentTags calls for one document, interleaving at each await. *)

\* The tag lists the two calls ask for.
ConcurrentRequests ==
    {<<>>, <<<<"a">>>>, <<<<"b">>>>, <<<<" ", "A">>, <<"b">>>>}

\* A call before its first statement: where it stands, the list it was
\* given, the names upsertTagsByName found existing and the rows it
\* returned.
NewTagCall(tagNames) ==
    [pc |-> "delete", tagNames |-> tagNames, existing |-> {}, rows |-> <<>>]

\* A call has ended: it returned or it threw.
TagCallEnded(call) == call.pc \in {"done", "threw"}

\* Both calls are under way and call p stands at the statement named.
TagCallAt(p, pc) ==
    /\ lastCall.op = "setDocumentTagsTwice"
    /\ lastCall.calls[p].pc = pc

\* The names of a call that have no row among the names it found.
MissingNames(call) ==
    SelectSeq(NormalizeNames(call.tagNames), LAMBDA name : name \notin call.existing)

\* The two calls start.
StartTagCalls ==
    /\ lastCall = NoCall
    /\ \E documentId \in DocIds, first \in ConcurrentRequests,
          second \in ConcurrentRequests :
        lastCall' = [op |-> "setDocumentTagsTwice", documentId |-> documentId,
                     calls |-> <<NewTagCall(first), NewTagCall(second)>>]
    /\ UNCHANGED <<outsideVars, chunkVars, tagVars, filterOut, docVars, searchOut>>

\* db.delete(documentTags).where(documentId); upsertTagsByName returns at
\* once for a list without names, and setDocumentTags returns with it.
TagsDelete(p) ==
    /\ TagCallAt(p, "delete")
    /\ documentTags' = SelectSeq(documentTags,
                           LAMBDA row : row.documentId # lastCall.documentId)
    /\ lastCall' = [lastCall EXCEPT !.calls[p].pc =
                      IF NormalizeNames(lastCall.calls[p].tagNames) = <<>>
                      THEN "done" ELSE "select"]
    /\ UNCHANGED <<outsideVars, chunkVars, tags, filterOut, docVars, searchOut>>

\* upsertTagsByName: db.select().from(tags).
TagsSelectExisting(p) ==
    /\ TagCallAt(p, "select")
    /\ lastCall' = [lastCall EXCEPT
                      !.calls[p].existing =
                          {normalizeTagName(tags[i].name) : i \in DOMAIN tags},
                      !.calls[p].pc =
                          IF \A name \in Range(NormalizeNames(lastCall.calls[p].tagNames)) :
                                \E i \in DOMAIN tags :
                                    normalizeTagName(tags[i].name) = name
                          THEN "rows" ELSE "create"]
    /\ UNCHANGED <<outsideVars, chunkVars, tagVars, filterOut, docVars, searchOut>>

\* upsertTagsByName: db.insert(tags) of the missing names; tags.name is
\* UNIQUE, so the insert throws when a name has a row by now.
TagsInsertMissing(p) ==
    /\ TagCallAt(p, "create")
    /\ IF \E i \in DOMAIN tags : tags[i].name \in Range(MissingNames(lastCall.calls[p]))
       THEN /\ tags' = tags
            /\ lastCall' = [lastCall EXCEPT !.calls[p].pc = "threw"]
       ELSE /\ tags' = tags \o
                  [i \in 1..Len(MissingNames(lastCall.calls[p])) |->
                      [id |-> Len(tags) + i,
                       name |-> MissingNames(lastCall.calls[p])[i]]]
            /\ lastCall' = [lastCall EXCEPT !.calls[p].pc = "rows"]
    /\ UNCHANGED <<outsideVars, chunkVars, documentTags, filterOut, docVars,
                   searchOut>>

\* upsertTagsByName: db.select().from(tags).where(inArray(name, normalized));
\* setDocumentTags returns when no row came back.
TagsSelectRows(p) ==
    /\ TagCallAt(p, "rows")
    /\ lastCall' = [lastCall EXCEPT
                      !.calls[p].rows =
                          SelectTagsByName(tags,
                              NormalizeNames(lastCall.calls[p].tagNames)),
                      !.calls[p].pc =
                          IF SelectTagsByName(tags,
                                 NormalizeNames(lastCall.calls[p].tagNames)) = <<>>
                          THEN "done" ELSE "insert"]
    /\ UNCHANGED <<outsideVars, chunkVars, tagVars, filterOut, docVars, searchOut>>

\* db.insert(documentTags) of one row for each tag row; the primary key
\* (document_id, tag_id) makes the insert throw when a row is there by now.
TagsInsertRows(p) ==
    /\ TagCallAt(p, "insert")
    /\ IF \E i \in DOMAIN documentTags, j \in DOMAIN lastCall.calls[p].rows :
             /\ documentTags[i].documentId = lastCall.documentId
             /\ documentTags[i].tagId = lastCall.calls[p].rows[j].id
       THEN /\ documentTags' = documentTags
            /\ lastCall' = [lastCall EXCEPT !.calls[p].pc = "threw"]
       ELSE /\ documentTags' = documentTags \o
                  [i \in 1..Len(lastCall.calls[p].rows) |->
                      [documentId |-> lastCall.documentId,
                       tagId |-> lastCall.calls[p].rows[i].id]]
            /\ lastCall' = [lastCall EXCEPT !.calls[p].pc = "done"]
    /\ UNCHANGED <<outsideVars, chunkVars, tags, filterOut, docVars, searchOut>>

\* Both calls have ended and their callers go on.
TagCallsReturn ==
    /\ lastCall.op = "setDocumentTagsTwice"
    /\ \A p \in 1..2 : TagCallEnded(lastCall.calls[p])
    /\ lastCall' = NoCall
    /\ UNCHANGED <<outsideVars, chunkVars, tagVars, filterOut, docVars, searchOut>>

NextConcurrentTags ==
    \/ StartTagCalls
    \/ \E p \in 1..2 : TagsDelete(p)
    \/ \E p \in 1..2 : TagsSelectExisting(p)
    \/ \E p \in 1..2 : TagsInsertMissing(p)
    \/ \E p \in 1..2 : TagsSelectRows(p)
    \/ \E p \in 1..2 : TagsInsertRows(p)
    \/ TagCallsReturn

SpecConcurrentTags == InitTags /\ [][NextConcurrentTags]_vars

-----------------------------------------------------------------------------
(* The uploads, removals and searches under study.                         *)

\* The upload forms: title, description, page texts and tag list.
\*   1: "A" with one page "a b", untagged;
\*   2: "c" described as "c", an empty page and a page "c", tagged a and b;
\*   3: "b" with one page "a", tagged a.
UploadForms ==
    {[title |-> <<"A">>, descriptionMd |-> <<>>,
      pageTexts |-> <<<<"a", " ", "b">>>>, tagsCsv |-> <<>>],
     [title |-> <<"c">>, descriptionMd |-> <<"c">>,
      pageTexts |-> <<<<>>, <<"c">>>>, tagsCsv |-> <<"a", ",", "B">>],
     [title |-> <<"b">>, descriptionMd |-> <<>>,
      pageTexts |-> <<<<"a">>>>, tagsCsv |-> <<"a">>]}

\* The queries typed: upper case with a trailing blank, plain, blank only,
\* and empty.
Queries == {<<"B", " ">>, <<"c">>, <<" ">>, <<>>}

\* The tag filters typed: none, one tag, two tags, a name that is no tag.
TagFilters == {<<>>, <<"a">>, <<" ", "A", ",", "b">>, <<"c">>}

\* The distances the vector query answers with, in tenths.
Distances == {0, 9, 12}

\* The steps of the semantic pass that can throw.
FailPoints == {"health", "embed", "query", "chunks"}

\* The answers of a vector query for at most n results: lists of distinct
\* entries of the collection, nearest first.
RECURSIVE QueryAnswers(_)
QueryAnswers(n) ==
    IF n = 0 THEN {<<>>}
    ELSE LET shorter == QueryAnswers(n - 1)
         IN  shorter \cup
             {Append(rows, [chunkId |-> chroma[i].metadata.chunkId, distance |-> d]) :
                rows \in {r \in shorter : Len(r) = n - 1},
                i \in DOMAIN chroma, d \in Distances}

\* An answer names no entry twice and is ordered by distance.
WellFormedAnswer(rows) ==
    /\ \A i, j \in DOMAIN rows : i < j =>
          /\ rows[i].chunkId # rows[j].chunkId
          /\ rows[i].distance <= rows[j].distance

InitSearch ==
    /\ GatewayIdle
    /\ ChunkIdle
    /\ TagTablesEmpty
    /\ filterOut = NoFilterCall
    /\ DocTablesEmpty
    /\ searchOut = NoSearchCall
    /\ lastCall = NoCall

\* The tables and the collection become those of db.
DbBecomes(db) ==
    /\ tags' = db.tags
    /\ documentTags' = db.documentTags
    /\ documents' = db.documents
    /\ documentText' = db.documentText
    /\ documentPages' = db.documentPages
    /\ chunks' = db.chunks
    /\ chunkEmbeddings' = db.chunkEmbeddings
    /\ chroma' = db.chroma
    /\ notes' = db.notes
    /\ noteTags' = db.noteTags
    /\ noteLinks' = db.noteLinks

\* An upload that succeeds, made while no search result is outstanding.
UploadCall ==
    /\ ~searchOut.called
    /\ nextDocId <= MaxUploads
    /\ \E form \in UploadForms :
          DbBecomes(uploadDocumentAction(DbNow, nextDocId, form))
    /\ nextDocId' = nextDocId + 1
    /\ UNCHANGED <<outsideVars, chunkVars, filterOut, searchOut, lastCall>>

\* A call removeDocumentArtifacts(documentId) for an existing document.
RemoveCall ==
    /\ ~searchOut.called
    /\ \E i \in DOMAIN documents :
          DbBecomes(removeDocumentArtifacts(DbNow, documents[i].id, "none").db)
    /\ UNCHANGED <<outsideVars, chunkVars, filterOut, nextDocId, searchOut, lastCall>>

\* A search; its result stays outstanding until the caller has taken it.
\* When the health check, the embedding or the vector query throws, no
\* answer arrives.
SearchCall ==
    /\ ~searchOut.called
    /\ \E query \in Queries, tagNamesCsv \in TagFilters, limit \in 1..MaxLimit,
          fail \in FailPoints \cup {"none"} :
        \E rows \in IF fail \in {"health", "embed", "query"} THEN {<<>>}
                     ELSE {r \in QueryAnswers(Min(MaxResults,
                                             Min(QueryCap, limit * QueryFactor))) :
                              WellFormedAnswer(r)} :
            LET out == searchDocumentsAction(DbNow, query, tagNamesCsv, limit,
                                             rows, fail)
            IN  /\ searchOut' = [called |-> TRUE, query |-> query,
                                 tagNamesCsv |-> tagNamesCsv, limit |-> limit,
                                 fail |-> fail, rows |-> rows,
                                 ok |-> out.ok, data |-> out.data,
                                 calls |-> out.calls,
                                 keyword |-> out.keyword, scores |-> out.scores]
                /\ UNCHANGED <<outsideVars, chunkVars, tagVars, filterOut, docVars, lastCall>>

\* The caller takes the outstanding search result.
SearchReturn ==
    /\ searchOut.called
    /\ searchOut' = NoSearchCall
    /\ UNCHANGED <<outsideVars, chunkVars, tagVars, filterOut, docVars, lastCall>>

NextSearch == UploadCall \/ RemoveCall \/ SearchCall \/ SearchReturn

SpecSearch == InitSearch /\ [][NextSearch]_vars

\* Searches over one stored document with long pages: a page is a run of
\* the letter a, one letter b or c, and a further run of the letter a, so
\* that the matched letter lies before, at and behind the ends of the
\* snippet window. The document has no chunks: its ingestion threw after
\* the page rows were written.
Pad(n) == [i \in 1..n |-> "a"]

LongPage(before, letter, after) == Pad(before) \o <<letter>> \o Pad(after)

LongPages ==
    {LongPage(before, letter, after) :
        before \in {0, 80, 81, 240}, letter \in {"b", "c"}, after \in {0, 160, 161}}

LongDocs == {<<t>> : t \in LongPages} \cup {<<Pad(3), t>> : t \in LongPages}

InitLongText ==
    /\ GatewayIdle
    /\ ChunkIdle
    /\ TagTablesEmpty
    /\ filterOut = NoFilterCall
    /\ searchOut = NoSearchCall
    /\ lastCall = NoCall
    /\ \E pageTexts \in LongDocs :
        /\ documents = <<[id |-> 1, title |-> <<"A">>, descriptionMd |-> <<>>,
                          pageCount |-> Len(pageTexts)]>>
        /\ documentText = <<[documentId |-> 1, text |-> ExtractFullText(pageTexts)]>>
        /\ documentPages = [i \in 1..Len(pageTexts) |->
                                [documentId |-> 1, page |-> i, text |-> pageTexts[i]]]
    /\ chunks = <<>>
    /\ chunkEmbeddings = <<>>
    /\ chroma = <<>>
    /\ nextDocId = 2
    /\ notes = <<>>
    /\ noteTags = <<>>
    /\ noteLinks = <<>>

NextLongText == SearchCall \/ SearchReturn

SpecLongText == InitLongText /\ [][NextLongText]_vars

-----------------------------------------------------------------------------
(* The ingestDocument and removeDocumentArtifacts calls under study.       *)

\* The documents ingested: one page "a b" (two chunks at the scaled chunk
\* size), and an empty page followed by a blank page (no chunk).
IngestDocs ==
    {[title |-> <<"A">>, descriptionMd |-> <<>>,
      pageTexts |-> <<<<"a", " ", "b">>>>],
     [title |-> <<"b">>, descriptionMd |-> <<"c">>,
      pageTexts |-> <<<<>>, <<" ">>>>]}

\* The input of ingestDocument for a document and an id.
IngestInput(documentId, doc) ==
    [documentId |-> documentId,
     title |-> doc.title,
     descriptionMd |-> doc.descriptionMd,
     pages |-> NumberPages(doc.pageTexts),
     fullText |-> ExtractFullText(doc.pageTexts)]

\* The deletes of removeDocumentArtifacts that throw in the runs studied.
RemoveFailPoints == {"records", "chunks", "document"}

InitIngest ==
    /\ GatewayIdle
    /\ ChunkIdle
    /\ TagTablesEmpty
    /\ filterOut = NoFilterCall
    /\ DocTablesEmpty
    /\ searchOut = NoSearchCall
    /\ lastCall = NoCall

\* A call ingestDocument(input), which may throw at any step.
IngestCall ==
    /\ lastCall = NoCall
    /\ \E documentId \in DocIds, doc \in IngestDocs,
          fail \in Range(IngestSteps) \cup {"none"} :
        LET input == IngestInput(documentId, doc)
            out == ingestDocument(DbNow, input, fail)
        IN  /\ DbBecomes(out.db)
            /\ lastCall' = [op |-> "ingest", input |-> input, fail |-> fail,
                            before |-> DbNow, ok |-> out.ok,
                            chunkCount |-> out.chunkCount, calls |-> out.calls]
    /\ UNCHANGED <<outsideVars, chunkVars, filterOut, nextDocId, searchOut>>

\* A call removeDocumentArtifacts(documentId), which may throw at a delete.
RemoveArtifactsCall ==
    /\ lastCall = NoCall
    /\ \E documentId \in DocIds, fail \in RemoveFailPoints \cup {"none"} :
        LET out == removeDocumentArtifacts(DbNow, documentId, fail)
        IN  /\ DbBecomes(out.db)
            /\ lastCall' = [op |-> "remove", documentId |-> documentId,
                            fail |-> fail, before |-> DbNow, ok |-> out.ok]
    /\ UNCHANGED <<outsideVars, chunkVars, filterOut, nextDocId, searchOut>>

NextIngest == IngestCall \/ RemoveArtifactsCall \/ CallReturn

SpecIngest == InitIngest /\ [][NextIngest]_vars

\* The note forms: the document, the tag list, the linked ids typed and
\* the ids of the doc:// links of the text.
NoteForms ==
    [documentId : DocIds,
     tagsCsv : {<<>>, <<"a">>},
     linkedDocumentIds : {<<>>, <<1>>, <<2, 1, 2>>},
     markdownIds : {<<>>, <<2>>}]

\* An upload that succeeds, made while no call is under study.
UploadBeforeRemove ==
    /\ lastCall = NoCall
    /\ UploadCall

\* A note is saved, made while no call is under study.
CreateNoteCall ==
    /\ lastCall = NoCall
    /\ Len(notes) < MaxNotes
    /\ \E form \in NoteForms :
          /\ DbBecomes(createNoteFromSelectionAction(
                          DbNow, FreshId({notes[i].id : i \in DOMAIN notes}), form))
          /\ lastCall' = [op |-> "createNote", form |-> form, before |-> DbNow,
                          noteId |-> FreshId({notes[i].id : i \in DOMAIN notes})]
    /\ UNCHANGED <<outsideVars, chunkVars, filterOut, nextDocId, searchOut>>

NextRemove ==
    UploadBeforeRemove \/ CreateNoteCall \/ RemoveArtifactsCall \/ CallReturn

SpecRemove == InitIngest /\ [][NextRemove]_vars

-----------------------------------------------------------------------------
(* The vector gateway: lib/server/clients/chroma.ts.                       *)

\* The errors a gateway call ends with: the two wrapped errors and the
\* error of the client library as it was thrown.
UpsertError == "Failed to upsert embeddings into Chroma"

QueryError == "Failed to query Chroma"

RawError == "error of the client library"

\* getCollection: the promise kept in collectionPromise afterwards. The
\* first call asks the service for the collection and keeps the promise,
\* which is rejected when the service is down; later calls return the
\* promise kept, settled as it is.
getCollection(promise, up) ==
    IF promise = "null" THEN (IF up THEN "resolved" ELSE "rejected")
    ELSE promise

\* upsertEmbeddings: both awaits are inside the try, every failure is
\* thrown again as the wrapped upsert error.
upsertEmbeddings(promise, up, collection, entries) ==
    IF getCollection(promise, up) = "rejected" \/ ~up
    THEN [promise |-> getCollection(promise, up), collection |-> collection,
          ok |-> FALSE, error |-> UpsertError]
    ELSE [promise |-> getCollection(promise, up),
          collection |-> ChromaUpsert(collection, entries),
          ok |-> TRUE, error |-> "none"]

\* queryEmbeddings: getCollection is awaited inside the try, so its
\* failure is thrown again as the wrapped query error; the promise of
\* collection.query is returned without await, so its rejection passes the
\* catch and reaches the caller as it is.
queryEmbeddings(promise, up) ==
    IF getCollection(promise, up) = "rejected"
    THEN [promise |-> getCollection(promise, up), ok |-> FALSE, error |-> QueryError]
    ELSE IF ~up
    THEN [promise |-> getCollection(promise, up), ok |-> FALSE, error |-> RawError]
    ELSE [promise |-> getCollection(promise, up), ok |-> TRUE, error |-> "none"]

\* The chunk ids upserted in the gateway calls under study.
GatewayIds == {<<1, 0>>, <<1, 1>>, <<2, 0>>, <<2, 1>>}

GatewayEntry(id) ==
    [id |-> id,
     metadata |-> [documentId |-> id[1], pageStart |-> 1, pageEnd |-> 1,
                   chunkId |-> id]]

\* The vector service goes down or comes back.
ServiceFlips ==
    /\ lastCall = NoCall
    /\ chromaUp' = ~chromaUp
    /\ UNCHANGED <<collectionPromise, uploads, chunkVars, tagVars, filterOut,
                   docVars, searchOut, lastCall>>

\* A call upsertEmbeddings for one chunk.
UpsertEmbeddingsCall ==
    /\ lastCall = NoCall
    /\ \E id \in GatewayIds :
        LET out == upsertEmbeddings(collectionPromise, chromaUp, chroma,
                                    <<GatewayEntry(id)>>)
        IN  /\ collectionPromise' = out.promise
            /\ chroma' = out.collection
            /\ lastCall' = [op |-> "upsertEmbeddings", up |-> chromaUp,
                            promise |-> collectionPromise,
                            ok |-> out.ok, error |-> out.error]
    /\ UNCHANGED <<chromaUp, uploads, chunkVars, tagVars, filterOut, searchOut,
                   documents, documentText, documentPages, chunks, chunkEmbeddings,
                   nextDocId, notes, noteTags, noteLinks>>

\* A call queryEmbeddings.
QueryEmbeddingsCall ==
    /\ lastCall = NoCall
    /\ LET out == queryEmbeddings(collectionPromise, chromaUp)
       IN  /\ collectionPromise' = out.promise
           /\ lastCall' = [op |-> "queryEmbeddings", up |-> chromaUp,
                           promise |-> collectionPromise,
                           ok |-> out.ok, error |-> out.error]
    /\ UNCHANGED <<chromaUp, uploads, chunkVars, tagVars, filterOut, docVars,
                   searchOut>>

NextGateway ==
    ServiceFlips \/ UpsertEmbeddingsCall \/ QueryEmbeddingsCall \/ CallReturn

SpecGateway == InitIngest /\ [][NextGateway]_vars

-----------------------------------------------------------------------------
(* The upload action from its first statement on.                          *)

\* The answers of the two heartbeat paths: a service that is up answers on
\* the path of its version, a service that is down on neither.
Heartbeats(up) ==
    IF up THEN {[v2 |-> TRUE, v1 |-> FALSE], [v2 |-> FALSE, v1 |-> TRUE]}
    ELSE {[v2 |-> FALSE, v1 |-> FALSE]}

\* assertChromaAvailable returns when one of the heartbeat paths answers
\* ok, and throws otherwise.
assertChromaAvailable(heartbeat) == heartbeat.v2 \/ heartbeat.v1

\* The input of ingestDocument made by the upload action.
UploadInput(documentId, form) ==
    [documentId |-> documentId,
     title |-> form.title,
     descriptionMd |-> form.descriptionMd,
     pages |-> ExtractPages(form.pageTexts),
     fullText |-> ExtractFullText(form.pageTexts)]

\* The catch of the upload action: ok = false, with the tables and the
\* upload directory as the statements made have left them.
UploadFailed(db, stored, calls) ==
    [db |-> db, uploads |-> stored, ok |-> FALSE, calls |-> calls]

\* The upload action after ingestDocument: the tags are set when the
\* ingestion has returned.
UploadIngested(ingested, stored, documentId, form) ==
    IF ~ingested.ok
    THEN UploadFailed(ingested.db, stored,
                      <<"health", "parse", "writeFile">> \o ingested.calls)
    ELSE [db |-> [ingested.db EXCEPT
                    !.tags = setDocumentTags(ingested.db.tags,
                                 ingested.db.documentTags, documentId,
                                 parseTagList(form.tagsCsv)).tags,
                    !.documentTags = setDocumentTags(ingested.db.tags,
                                 ingested.db.documentTags, documentId,
                                 parseTagList(form.tagsCsv)).documentTags],
          uploads |-> stored, ok |-> TRUE,
          calls |-> <<"health", "parse", "writeFile">> \o ingested.calls
                        \o <<"tags">>]

\* As UploadRun, but the file is stored before the health check is made.
UploadRun_StoresFileFirst(db, stored, documentId, form, pdf, heartbeat, fail) ==
    IF ~assertChromaAvailable(heartbeat)
    THEN UploadFailed(db, stored \cup {documentId}, <<"health">>)
    ELSE IF ~pdf THEN UploadFailed(db, stored \cup {documentId}, <<"health", "parse">>)
    ELSE UploadIngested(ingestDocument(db, UploadInput(documentId, form), fail),
                        stored \cup {documentId}, documentId, form)

\* uploadDocumentAction in the order of its statements: the health check;
\* the form is parsed and the PDF read (`pdf` tells whether that
\* succeeds); the file is written; ingestDocument; setDocumentTags. The
\* result is the tables, the upload directory, the outcome and the calls
\* made, in order.
UploadRun(db, stored, documentId, form, pdf, heartbeat, fail) ==
    IF ~assertChromaAvailable(heartbeat)
    THEN UploadFailed(db, stored, <<"health">>)
    ELSE IF ~pdf THEN UploadFailed(db, stored, <<"health", "parse">>)
    ELSE UploadIngested(ingestDocument(db, UploadInput(documentId, form), fail),
                        stored \cup {documentId}, documentId, form)

\* The step of ingestDocument that throws in an upload: the embedding
\* service may fail; the upsert fails when the collection promise kept is
\* rejected.
UploadFail(promise, up, fail) ==
    IF fail = "none" /\ getCollection(promise, up) = "rejected" THEN "upsert"
    ELSE fail

\* A call uploadDocumentAction(formData).
UploadActionCall ==
    /\ lastCall = NoCall
    /\ nextDocId <= MaxUploads
    /\ \E form \in UploadForms, pdf \in BOOLEAN,
          heartbeat \in Heartbeats(chromaUp), fail \in {"none", "embed"} :
        LET out == UploadRun(DbNow, uploads, nextDocId, form, pdf, heartbeat,
                             UploadFail(collectionPromise, chromaUp, fail))
        IN  /\ DbBecomes(out.db)
            /\ uploads' = out.uploads
            /\ collectionPromise' =
                  IF "upsert" \in Range(out.calls)
                  THEN getCollection(collectionPromise, chromaUp)
                  ELSE collectionPromise
            /\ nextDocId' = IF "writeFile" \in Range(out.calls)
                            THEN nextDocId + 1 ELSE nextDocId
            /\ lastCall' = [op |-> "upload", form |-> form, pdf |-> pdf,
                            heartbeat |-> heartbeat, before |-> DbNow,
                            stored |-> uploads, ok |-> out.ok,
                            calls |-> out.calls]
    /\ UNCHANGED <<chromaUp, chunkVars, filterOut, searchOut>>

NextUpload ==
    ServiceFlips \/ QueryEmbeddingsCall \/ UploadActionCall \/ CallReturn

SpecUpload == InitIngest /\ [][NextUpload]_vars

-----------------------------------------------------------------------------
(* Properties of the tag filter.                                           *)

\* The tag names a call asks for: the non-empty normalized names.
Requested(tagNames) ==
    {normalizeTagName(tagNames[i]) : i \in DOMAIN tagNames} \ {<<>>}

\* The names of the existing Tags.
TagNames == {tags[i].name : i \in DOMAIN tags}

\* Document d has the tag called name attached.
HasTag(d, name) ==
    \E i \in DOMAIN documentTags, j \in DOMAIN tags :
        /\ documentTags[i].documentId = d
        /\ documentTags[i].tagId = tags[j].id
        /\ tags[j].name = name

\* Every name of the list is empty or white space only.
AllBlank(tagNames) ==
    \A i \in DOMAIN tagNames : \A k \in DOMAIN tagNames[i] : IsSpace(tagNames[i][k])

\* C1: when the requested names are k >= 1 existing tags, the result is
\* exactly the documents that have all k of them attached: none that lacks
\* one, none omitted.
C1_AndSemantics ==
    (/\ filterOut.called
     /\ Requested(filterOut.tagNames) # {}
     /\ Requested(filterOut.tagNames) \subseteq TagNames) =>
        /\ ~filterOut.null
        /\ Range(filterOut.ids) =
              {d \in DocIds : \A name \in Requested(filterOut.tagNames) : HasTag(d, name)}

\* C1 witness: two tags requested, one document has both and is returned,
\* another has only one of them.
C1_Witness ==
    /\ filterOut.called
    /\ Cardinality(Requested(filterOut.tagNames)) = 2
    /\ Requested(filterOut.tagNames) \subseteq TagNames
    /\ filterOut.ids # <<>>
    /\ \E d \in DocIds :
          /\ \E name \in Requested(filterOut.tagNames) : HasTag(d, name)
          /\ \E name \in Requested(filterOut.tagNames) : ~HasTag(d, name)

\* C6: the result is null exactly when no name is left after normalizing;
\* with names left of which one is no Tag, it is the empty list, returned
\* without reading the document-tag associations.
C6_NullAndMissing ==
    filterOut.called =>
        /\ filterOut.null <=> AllBlank(filterOut.tagNames)
        /\ (/\ ~AllBlank(filterOut.tagNames)
            /\ \E name \in Requested(filterOut.tagNames) : name \notin TagNames) =>
              /\ ~filterOut.null
              /\ filterOut.ids = <<>>
              /\ ~filterOut.readRelations

\* C6 witness: one requested name is a tag attached to a document, another
\* is no tag, and the result is the empty list.
C6_Witness ==
    /\ filterOut.called
    /\ \E name \in Requested(filterOut.tagNames) : name \notin TagNames
    /\ \E name \in Requested(filterOut.tagNames), d \in DocIds : HasTag(d, name)
    /\ ~filterOut.null
    /\ filterOut.ids = <<>>

-----------------------------------------------------------------------------
(* Properties of the chunker.                                              *)

\* The words of a chunk, read back from its text.
ChunkWords(chunk) == splitWords(chunk.text)

\* The words of all pages in page order.
RECURSIVE AllWords(_)
AllWords(pages) ==
    IF pages = <<>> THEN <<>>
    ELSE splitWords(Head(pages).text) \o AllWords(Tail(pages))

\* A list without its first n elements.
DropFirst(words, n) == SubSeq(words, n + 1, Len(words))

\* Chunk 0 followed by what every later chunk holds after its first
\* `overlap` words.
RECURSIVE NonOverlapping(_, _, _)
NonOverlapping(list, overlap, first) ==
    IF list = <<>> THEN <<>>
    ELSE (IF first THEN ChunkWords(Head(list))
          ELSE DropFirst(ChunkWords(Head(list)), overlap))
         \o NonOverlapping(Tail(list), overlap, FALSE)

\* C9: for chunkSize > overlap, chunk 0 followed by the words of each later
\* chunk after its first `overlap` words is exactly the word sequence of all
\* pages in page order: nothing lost, duplicated, reordered or split.
C9_Reconstructs ==
    (chunkDone /\ chunkIn.chunkSize > chunkIn.overlap) =>
        NonOverlapping(chunkOut, chunkIn.overlap, TRUE) = AllWords(chunkIn.pages)

\* C9 witness: three chunks with a non-empty overlap, built from words of
\* two pages.
C9_Witness ==
    /\ chunkDone
    /\ chunkIn.chunkSize > chunkIn.overlap
    /\ chunkIn.overlap >= 1
    /\ Len(chunkOut) >= 3
    /\ Len(chunkIn.pages) = 2
    /\ \A i \in 1..2 : splitWords(chunkIn.pages[i].text) # <<>>
    /\ \E i, j \in 1..Len(AllWords(chunkIn.pages)) :
          AllWords(chunkIn.pages)[i] # AllWords(chunkIn.pages)[j]

\* C10: for chunkSize > overlap >= 0 every chunk has at most chunkSize
\* words and every chunk but the last has exactly chunkSize words.
C10_ChunkSizes ==
    (chunkDone /\ chunkIn.chunkSize > chunkIn.overlap) =>
        \A i \in 1..Len(chunkOut) :
            /\ Len(ChunkWords(chunkOut[i])) <= chunkIn.chunkSize
            /\ i < Len(chunkOut) =>
                  Len(ChunkWords(chunkOut[i])) = chunkIn.chunkSize

\* C10 witness: several chunks of which the last is a partial one.
C10_Witness ==
    /\ chunkDone
    /\ chunkIn.chunkSize > chunkIn.overlap
    /\ chunkIn.chunkSize >= 2
    /\ Len(chunkOut) >= 2
    /\ Len(ChunkWords(chunkOut[Len(chunkOut)])) < chunkIn.chunkSize
    /\ Len(ChunkWords(chunkOut[1])) = chunkIn.chunkSize

\* ceil(a / b) for b > 0.
CeilDiv(a, b) == -((-a) \div b)

\* C11: with an overlap below half the chunk size, as 80 is for 260, a
\* document of N words gives no chunk when N = 0 and else at least
\* ceil((N - overlap) / (chunkSize - overlap)) chunks and at most one more,
\* and the words buffered after the last page are in the final chunk: the
\* last chunk ends with the last word of the document.
C11_ChunkCount ==
    /\ 2 * DefaultOverlap < DefaultChunkSize
    /\ (chunkDone /\ 2 * chunkIn.overlap < chunkIn.chunkSize) =>
          LET words == AllWords(chunkIn.pages)
              count == CeilDiv(Len(words) - chunkIn.overlap,
                               chunkIn.chunkSize - chunkIn.overlap)
          IN  /\ words = <<>> => chunkOut = <<>>
              /\ words # <<>> =>
                    /\ chunkOut # <<>>
                    /\ LET last == ChunkWords(chunkOut[Len(chunkOut)])
                       IN  /\ last # <<>>
                           /\ last[Len(last)] = words[Len(words)]
              /\ Len(chunkOut) >= count
              /\ Len(chunkOut) <= count + 1

\* C11 witness: more words than a chunk holds, a final chunk shorter than
\* chunkSize and a non-empty overlap.
C11_Witness ==
    /\ chunkDone
    /\ chunkIn.overlap >= 1
    /\ 2 * chunkIn.overlap < chunkIn.chunkSize
    /\ Len(AllWords(chunkIn.pages)) >= chunkIn.chunkSize
    /\ Len(chunkOut) >= 2
    /\ Len(ChunkWords(chunkOut[Len(chunkOut)])) < chunkIn.chunkSize

\* C12: for pages numbered 1..pageCount in order every chunk has
\* 1 <= pageStart <= pageEnd <= pageCount, and pageStart and pageEnd do not
\* decrease from a chunk to the next.
C12_PageSpans ==
    chunkDone =>
        /\ \A i \in DOMAIN chunkOut :
              /\ 1 <= chunkOut[i].pageStart
              /\ chunkOut[i].pageStart <= chunkOut[i].pageEnd
              /\ chunkOut[i].pageEnd <= Len(chunkIn.pages)
        /\ \A i, j \in DOMAIN chunkOut :
              i < j =>
                  /\ chunkOut[i].pageStart <= chunkOut[j].pageStart
                  /\ chunkOut[i].pageEnd <= chunkOut[j].pageEnd

\* C12 witness: a chunk that spans two pages, followed by a chunk that
\* starts on the second page.
C12_Witness ==
    /\ chunkDone
    /\ Len(chunkOut) >= 2
    /\ chunkOut[1].pageStart < chunkOut[1].pageEnd
    /\ chunkOut[2].pageStart = 2

-----------------------------------------------------------------------------
(* Properties of the hybrid search.                                        *)

\* The outstanding search passed searchSchema.
SearchAccepted == searchOut.called /\ SchemaAccepts(searchOut.query, searchOut.limit)

\* The normalized query of the outstanding search.
SearchQuery == ToLower(Trim(searchOut.query))

\* The tag names the outstanding search asks for.
SearchTags == Requested(SplitOnComma(searchOut.tagNamesCsv, <<>>))

\* The candidate documents: every document when no tag is asked for, else
\* the documents that have every requested tag attached.
Candidates ==
    {documents[i].id : i \in
        {j \in DOMAIN documents :
            \A name \in SearchTags : HasTag(documents[j].id, name)}}

\* The row and the table position of document d.
DocPosition(d) == CHOOSE i \in DOMAIN documents : documents[i].id = d

DocRow(d) == documents[DocPosition(d)]

\* The lower-cased text contains the normalized query.
Contains(text) == Includes(ToLower(text), SearchQuery)

\* The tag text of document d: its tag names separated by blanks.
TagTextOf(d) == Join(DocTagNames(DbNow, d), <<" ">>)

\* The haystack of document d contains the query.
KeywordMatch(d) ==
    Contains(DocRow(d).title \o <<"\n">> \o DocRow(d).descriptionMd \o <<"\n">>
             \o TagTextOf(d) \o <<"\n">> \o TextOf(DbNow, d))

\* The keyword score the spec gives a matching document.
ExpectedKeywordScore(d) ==
    10 + (IF Contains(DocRow(d).title) THEN 20 ELSE 0)
       + (IF Contains(DocRow(d).descriptionMd) THEN 8 ELSE 0)
       + (IF Contains(TagTextOf(d)) THEN 6 ELSE 0)

\* The query is found in the title of d only, in the extracted text only.
TitleOnly(d) ==
    /\ Contains(DocRow(d).title)
    /\ ~Contains(DocRow(d).descriptionMd)
    /\ ~Contains(TagTextOf(d))
    /\ ~Contains(TextOf(DbNow, d))

BodyOnly(d) ==
    /\ ~Contains(DocRow(d).title)
    /\ ~Contains(DocRow(d).descriptionMd)
    /\ ~Contains(TagTextOf(d))
    /\ Contains(TextOf(DbNow, d))

\* The page rows of d whose text contains the query, and the lowest such
\* page (NoPage if there is none).
MatchingPages(d) ==
    {i \in DOMAIN documentPages :
        /\ documentPages[i].documentId = d
        /\ Contains(documentPages[i].text)}

FirstMatchingPage(d) ==
    CHOOSE i \in MatchingPages(d) :
        \A j \in MatchingPages(d) : documentPages[i].page <= documentPages[j].page

ExpectedKeywordPage(d) ==
    IF MatchingPages(d) = {} THEN NoPage
    ELSE documentPages[FirstMatchingPage(d)].page

\* The snippet of a keyword match: around the query in the first matching
\* page, else in the description and full text.
ExpectedKeywordSnippet(d) ==
    findSnippet(IF MatchingPages(d) = {}
                THEN DocRow(d).descriptionMd \o <<"\n">> \o TextOf(DbNow, d)
                ELSE documentPages[FirstMatchingPage(d)].text,
                searchOut.query)

\* The entries of a scores Map for document d.
EntriesOf(scores, d) == SelectSeq(scores, LAMBDA e : e.documentId = d)

\* The semantic pass of the outstanding search threw: the health check, the
\* embedding or the vector query failed, or the chunk lookup that is made
\* for a non-empty answer did.
SemanticFailed ==
    \/ searchOut.fail \in {"health", "embed", "query"}
    \/ searchOut.fail = "chunks" /\ searchOut.rows # <<>>

\* Row r of the answer is a chunk of document d.
RowOf(r, d) ==
    \E i \in DOMAIN chunks : chunks[i].id = r.chunkId /\ chunks[i].documentId = d

\* max(0, 1 - distance) * 30 as the spec states it, distances in tenths.
ExpectedBoost(distance) ==
    IF distance >= OneDistance THEN 0
    ELSE ((OneDistance - distance) * 30) \div OneDistance

\* The sum of the boosts of the rows that are chunks of d.
RECURSIVE BoostSum(_, _)
BoostSum(d, rows) ==
    IF rows = <<>> THEN 0
    ELSE (IF RowOf(Head(rows), d) THEN ExpectedBoost(Head(rows).distance) ELSE 0)
         + BoostSum(d, Tail(rows))

\* The passes that touched d.
ExpectedReasons(d) ==
    (IF KeywordMatch(d) THEN {"keyword"} ELSE {})
    \cup (IF \E i \in DOMAIN searchOut.rows : RowOf(searchOut.rows[i], d)
          THEN {"semantic"} ELSE {})

\* The scored documents of the outstanding search and their scores.
ScoredDocs == {searchOut.scores[i].documentId : i \in DOMAIN searchOut.scores}

ScoreOf(d) == EntriesOf(searchOut.scores, d)[1].score

\* The encounter order: keyword matches in candidate order, then the
\* documents only the semantic pass found, in the order of the answer.
EncounterRank(d) ==
    IF KeywordMatch(d) THEN DocPosition(d)
    ELSE Len(documents)
         + (CHOOSE i \in DOMAIN searchOut.rows :
               /\ RowOf(searchOut.rows[i], d)
               /\ \A j \in DOMAIN searchOut.rows :
                     RowOf(searchOut.rows[j], d) => i <= j)

\* The place of d in the stable descending sort: one more than the number
\* of documents with a higher score or with the same score met earlier.
PlaceOf(d) ==
    1 + Cardinality({e \in ScoredDocs :
            \/ ScoreOf(e) > ScoreOf(d)
            \/ ScoreOf(e) = ScoreOf(d) /\ EncounterRank(e) < EncounterRank(d)})

\* C2: when the semantic pass throws at the health check, the embedding,
\* the vector query or the chunk lookup, the search still succeeds and its
\* hits are those of the keyword pass alone: the best `limit` keyword
\* matches among the candidates, each with its keyword score, page and
\* snippet and with the reasons ["keyword"].
C2_KeywordFallback ==
    (SearchAccepted /\ SemanticFailed) =>
        /\ searchOut.ok
        /\ searchOut.data =
              BuildHits(SelectSeq(documents, LAMBDA row : row.id \in Candidates),
                        searchOut.keyword, searchOut.limit)
        /\ Len(searchOut.data) =
              Min(searchOut.limit, Cardinality({d \in Candidates : KeywordMatch(d)}))
        /\ \A i \in DOMAIN searchOut.data :
              LET hit == searchOut.data[i]
              IN  /\ hit.documentId \in Candidates
                  /\ KeywordMatch(hit.documentId)
                  /\ hit.score = ExpectedKeywordScore(hit.documentId)
                  /\ hit.page = ExpectedKeywordPage(hit.documentId)
                  /\ hit.snippet = ExpectedKeywordSnippet(hit.documentId)
                  /\ hit.reasons = <<"keyword">>
                  /\ \A d \in Candidates :
                        (/\ KeywordMatch(d)
                         /\ \A j \in DOMAIN searchOut.data :
                               searchOut.data[j].documentId # d)
                        => ExpectedKeywordScore(d) <= hit.score

\* C2 witness: the chunk lookup throws for an answer whose nearest row, at
\* distance 0, is a chunk of a keyword hit, and which also names a chunk of
\* a candidate the keyword pass did not match.
C2_Witness ==
    /\ SearchAccepted
    /\ searchOut.fail = "chunks"
    /\ searchOut.data # <<>>
    /\ \E i \in DOMAIN searchOut.rows :
          /\ searchOut.rows[i].distance = 0
          /\ RowOf(searchOut.rows[i], searchOut.data[1].documentId)
    /\ \E i \in DOMAIN searchOut.rows, d \in Candidates :
          /\ RowOf(searchOut.rows[i], d)
          /\ ~KeywordMatch(d)

\* C3: when the semantic pass does not throw, the score of every hit is
\* its keyword score (0 without a keyword match) plus the sum of
\* max(0, 1 - distance) * 30 over the returned chunks of the document, and
\* its reasons are exactly the passes that touched the document; the boost
\* is 0 from distance 1 on and grows as the distance shrinks below 1.
C3_CombinedScore ==
    /\ (SearchAccepted /\ ~SemanticFailed) =>
          \A i \in DOMAIN searchOut.data :
              LET hit == searchOut.data[i]
              IN  /\ hit.score =
                        (IF KeywordMatch(hit.documentId)
                         THEN ExpectedKeywordScore(hit.documentId) ELSE 0)
                        + BoostSum(hit.documentId, searchOut.rows)
                  /\ Range(hit.reasons) = ExpectedReasons(hit.documentId)
                  /\ Len(hit.reasons) = Cardinality(ExpectedReasons(hit.documentId))
    /\ searchOut.called =>
          \A near, far \in Distances :
              /\ far >= OneDistance => SemanticBoost(far) = 0
              /\ (near < far /\ near < OneDistance) =>
                    SemanticBoost(near) > SemanticBoost(far)

\* C3 witness: a hit with a keyword match and two returned chunks at
\* different distances below 1, together worth more than one chunk alone
\* could give.
C3_Witness ==
    /\ SearchAccepted
    /\ searchOut.fail = "none"
    /\ \E i \in DOMAIN searchOut.data :
          LET hit == searchOut.data[i]
          IN  /\ KeywordMatch(hit.documentId)
              /\ hit.reasons = <<"keyword", "semantic">>
              /\ hit.score > ExpectedKeywordScore(hit.documentId) + 30
              /\ Cardinality({j \in DOMAIN searchOut.rows :
                     RowOf(searchOut.rows[j], hit.documentId)}) = 2
    /\ \E i, j \in DOMAIN searchOut.rows :
          searchOut.rows[i].distance < searchOut.rows[j].distance

\* C4: after the keyword loop every candidate whose haystack contains the
\* normalized query has one entry, scored 10 + 20 [title] + 8 [description]
\* + 6 [tag text] with the reason "keyword", and no other document has an
\* entry; in a keyword-only result a title-only match stands before a
\* body-only match.
C4_KeywordScore ==
    (SearchAccepted /\ Len(searchOut.calls) > 2) =>
        /\ \A d \in Candidates :
              LET entries == EntriesOf(searchOut.keyword, d)
              IN  IF KeywordMatch(d)
                  THEN /\ Len(entries) = 1
                       /\ entries[1].score = ExpectedKeywordScore(d)
                       /\ entries[1].reasons = <<"keyword">>
                  ELSE entries = <<>>
        /\ \A i \in DOMAIN searchOut.keyword :
              searchOut.keyword[i].documentId \in Candidates
        /\ SemanticFailed =>
              \A i, j \in DOMAIN searchOut.data :
                  (/\ TitleOnly(searchOut.data[i].documentId)
                   /\ BodyOnly(searchOut.data[j].documentId)) =>
                      /\ i < j
                      /\ searchOut.data[i].score = 30
                      /\ searchOut.data[j].score = 10

\* C4 witness: a keyword-only result in which a title-only match, uploaded
\* later, stands before a body-only match, next to a candidate that has no
\* entry.
C4_Witness ==
    /\ SearchAccepted
    /\ SemanticFailed
    /\ Len(searchOut.data) = 2
    /\ TitleOnly(searchOut.data[1].documentId)
    /\ BodyOnly(searchOut.data[2].documentId)
    /\ DocPosition(searchOut.data[2].documentId)
          < DocPosition(searchOut.data[1].documentId)

\* C5: the hits are the first `limit` scored documents of the stable
\* descending sort: hit i is the document with i - 1 documents before it
\* (higher score, or equal score and met earlier), scores do not increase
\* along the list and the list is no longer than limit.
C5_StableTopLimit ==
    (SearchAccepted /\ searchOut.ok) =>
        /\ Len(searchOut.data) <= searchOut.limit
        /\ Len(searchOut.data) = Min(searchOut.limit, Cardinality(ScoredDocs))
        /\ \A i \in DOMAIN searchOut.data :
              /\ searchOut.data[i].documentId \in ScoredDocs
              /\ searchOut.data[i].score = ScoreOf(searchOut.data[i].documentId)
              /\ PlaceOf(searchOut.data[i].documentId) = i
        /\ \A i, j \in DOMAIN searchOut.data :
              i < j => searchOut.data[i].score >= searchOut.data[j].score

\* C5 witness: limit 1 and two documents with the same, highest score, both
\* found by the semantic pass only; the hit is the one whose chunk the
\* answer names first, although it was uploaded later.
C5_Witness ==
    /\ SearchAccepted
    /\ searchOut.limit = 1
    /\ Len(searchOut.data) = 1
    /\ \E d \in ScoredDocs :
          /\ d # searchOut.data[1].documentId
          /\ ScoreOf(d) = searchOut.data[1].score
          /\ ~KeywordMatch(d)
          /\ ~KeywordMatch(searchOut.data[1].documentId)
          /\ DocPosition(d) < DocPosition(searchOut.data[1].documentId)

\* C7: when tags are asked for and no document has them all, the search
\* succeeds with no hits right after the tag filter: nothing is read for
\* the keyword loop, and the health check, the embedding service and the
\* vector index are not called.
C7_EmptyFilterShortCut ==
    (SearchAccepted /\ SearchTags # {} /\ Candidates = {}) =>
        /\ searchOut.ok
        /\ searchOut.data = <<>>
        /\ searchOut.calls = <<"filter">>
        /\ searchOut.keyword = <<>>
        /\ searchOut.scores = <<>>

\* C7 witness: the requested tags all exist but no document has them all,
\* while a document contains the query and has a vector in the collection.
C7_Witness ==
    /\ SearchAccepted
    /\ SearchTags # {}
    /\ SearchTags \subseteq TagNames
    /\ Candidates = {}
    /\ searchOut.data = <<>>
    /\ \E i \in DOMAIN documents :
          /\ KeywordMatch(documents[i].id)
          /\ \E j \in DOMAIN chroma :
                chroma[j].metadata.documentId = documents[i].id

\* C8: when tags are asked for, every hit is a document that has all of
\* them, and no entry of the scores Map belongs to a document outside the
\* candidates: a returned chunk of such a document adds nothing.
C8_FilterBindsSemantic ==
    (SearchAccepted /\ searchOut.ok /\ SearchTags # {}) =>
        /\ \A i \in DOMAIN searchOut.data :
              /\ \A name \in SearchTags : HasTag(searchOut.data[i].documentId, name)
              /\ searchOut.data[i].score =
                    (IF KeywordMatch(searchOut.data[i].documentId)
                     THEN ExpectedKeywordScore(searchOut.data[i].documentId) ELSE 0)
                    + (IF SemanticFailed THEN 0
                       ELSE BoostSum(searchOut.data[i].documentId, searchOut.rows))
        /\ \A i \in DOMAIN searchOut.scores :
              searchOut.scores[i].documentId \in Candidates

\* C8 witness: with a tag asked for, the answer's nearest row is a chunk of
\* a document without the tag, and a document with the tag is a hit found
\* by the semantic pass only.
C8_Witness ==
    /\ SearchAccepted
    /\ SearchTags # {}
    /\ searchOut.fail = "none"
    /\ Len(searchOut.rows) = 2
    /\ \E i \in DOMAIN documents :
          /\ documents[i].id \notin Candidates
          /\ RowOf(searchOut.rows[1], documents[i].id)
          /\ searchOut.rows[1].distance = 0
    /\ \E i \in DOMAIN searchOut.data :
          searchOut.data[i].reasons = <<"semantic">>


(***************************************************************************)
(* Properties of ingestion and removal                                     *)
(***************************************************************************)

\* new holds the rows of old, in order, followed by further rows.
IsExtension(old, new) ==
    /\ Len(new) >= Len(old)
    /\ SubSeq(new, 1, Len(old)) = old

\* The rows of new after those of old.
Added(old, new) == SubSeq(new, Len(old) + 1, Len(new))

\* Step p of the ingestDocument call under study was made and did not throw.
StepDone(p) ==
    \/ p < Len(lastCall.calls)
    \/ p = Len(lastCall.calls) /\ lastCall.ok

\* A table written by step p of the call under study holds its earlier
\* rows followed by n rows of the document if the step was done, and is
\* unchanged otherwise.
TableAfterStep(old, new, p, n) ==
    IF StepDone(p)
    THEN /\ IsExtension(old, new)
         /\ Len(new) = Len(old) + n
         /\ \A i \in DOMAIN Added(old, new) :
                IF p = 1 THEN Added(old, new)[i].id = lastCall.input.documentId
                ELSE IF p = 7 THEN Added(old, new)[i].chunkId[1] = lastCall.input.documentId
                ELSE Added(old, new)[i].documentId = lastCall.input.documentId
    ELSE new = old

\* C13: ingestDocument makes its steps in one fixed order (Document row,
\* text row and page rows, Chunk rows, embeddings, one vector upsert,
\* Embedding records); a step that throws ends the call with the error,
\* no later step is made, and the rows written by the earlier steps stay.
C13_StepOrder ==
    lastCall.op = "ingest" =>
        LET k == Len(lastCall.calls)
            b == lastCall.before
            newChunks == Len(chunks) - Len(b.chunks)
        IN  /\ lastCall.calls = SubSeq(IngestSteps, 1, k)
            /\ lastCall.fail \in Range(lastCall.calls) =>
                    ~lastCall.ok /\ lastCall.calls[k] = lastCall.fail
            /\ lastCall.ok => k \in {3, Len(IngestSteps)}
            /\ ~lastCall.ok => k >= 1
            /\ TableAfterStep(b.documents, documents, 1, 1)
            /\ TableAfterStep(b.documentText, documentText, 2, 1)
            /\ TableAfterStep(b.documentPages, documentPages, 3,
                              Len(lastCall.input.pages))
            /\ TableAfterStep(b.chunks, chunks, 4, newChunks)
            /\ StepDone(4) => newChunks >= 1
            /\ IF StepDone(6)
               THEN \A i \in DOMAIN Added(b.chunks, chunks) :
                        \E j \in DOMAIN chroma :
                            chroma[j].id = Added(b.chunks, chunks)[i].id
               ELSE chroma = b.chroma
            /\ TableAfterStep(b.chunkEmbeddings, chunkEmbeddings, 7, newChunks)
            /\ lastCall.ok =>
                    lastCall.chunkCount = newChunks
            /\ tags = b.tags /\ documentTags = b.documentTags
            /\ notes = b.notes /\ noteTags = b.noteTags
            /\ noteLinks = b.noteLinks

\* The embedding service fails for a second document: its Document, text,
\* page and Chunk rows are stored, the collection and the Embedding
\* records are as before.
C13_Witness ==
    /\ lastCall.op = "ingest"
    /\ lastCall.fail = "embed"
    /\ ~lastCall.ok
    /\ lastCall.calls = SubSeq(IngestSteps, 1, 5)
    /\ lastCall.before.documents # <<>>
    /\ Len(documents) = Len(lastCall.before.documents) + 1
    /\ Len(chunks) > Len(lastCall.before.chunks)
    /\ chroma = lastCall.before.chroma
    /\ chunkEmbeddings = lastCall.before.chunkEmbeddings

\* C14: whatever ingestDocument and removeDocumentArtifacts calls were
\* made, failing ones included, every Embedding record refers to a Chunk
\* row that exists, and its chromaId is that chunk's id.
C14_RecordsHaveChunks ==
    \A i \in DOMAIN chunkEmbeddings :
        /\ \E j \in DOMAIN chunks : chunks[j].id = chunkEmbeddings[i].chunkId
        /\ chunkEmbeddings[i].chromaId = chunkEmbeddings[i].chunkId

\* A removal threw at the delete of the Chunk rows, after the Embedding
\* records of the document were deleted, while another document keeps its
\* records.
C14_Witness ==
    /\ lastCall.op = "remove"
    /\ lastCall.fail = "chunks"
    /\ ~lastCall.ok
    /\ Len(chunkEmbeddings) < Len(lastCall.before.chunkEmbeddings)
    /\ chunks = lastCall.before.chunks
    /\ chunkEmbeddings # <<>>

\* Every page of the input is empty or holds white space only.
AllPagesBlank(pages) ==
    \A i \in DOMAIN pages : \A j \in DOMAIN pages[i].text : IsSpace(pages[i].text[j])

\* The first three inserts of the call under study are not made to throw
\* and meet no row with their primary key.
RowInsertsSucceed ==
    /\ lastCall.fail \notin {"document", "text", "pages"}
    /\ ~DocumentExists(lastCall.before, lastCall.input.documentId)
    /\ ~TextExists(lastCall.before, lastCall.input.documentId)
    /\ ~PageExists(lastCall.before, lastCall.input.documentId, lastCall.input.pages)

\* C15: when every page is empty or white space, ingestDocument stores the
\* Document row, the text row and the page rows and returns chunkCount 0;
\* it inserts no Chunk row, asks for no embedding, upserts no vector and
\* inserts no Embedding record.
C15_NoWordsNoChunks ==
    (/\ lastCall.op = "ingest"
     /\ AllPagesBlank(lastCall.input.pages)
     /\ RowInsertsSucceed) =>
        /\ lastCall.ok
        /\ lastCall.chunkCount = 0
        /\ lastCall.calls = <<"document", "text", "pages">>
        /\ \E i \in DOMAIN documents : documents[i].id = lastCall.input.documentId
        /\ \E i \in DOMAIN documentText :
                /\ documentText[i].documentId = lastCall.input.documentId
                /\ documentText[i].text = lastCall.input.fullText
        /\ \A p \in DOMAIN lastCall.input.pages :
                \E i \in DOMAIN documentPages :
                    /\ documentPages[i].documentId = lastCall.input.documentId
                    /\ documentPages[i].page = lastCall.input.pages[p].page
                    /\ documentPages[i].text = lastCall.input.pages[p].text
        /\ chunks = lastCall.before.chunks
        /\ chroma = lastCall.before.chroma
        /\ chunkEmbeddings = lastCall.before.chunkEmbeddings

\* A document of two blank pages is ingested next to a document that has
\* chunks, with the embedding service down.
C15_Witness ==
    /\ lastCall.op = "ingest"
    /\ AllPagesBlank(lastCall.input.pages)
    /\ Len(lastCall.input.pages) = 2
    /\ RowInsertsSucceed
    /\ lastCall.fail = "embed"
    /\ lastCall.ok
    /\ lastCall.before.chunks # <<>>
    /\ Len(documentPages) = Len(lastCall.before.documentPages) + 2

\* C16: after removeDocumentArtifacts(d) completes, no vector whose
\* metadata names document d is left in the collection, so that a later
\* vector query cannot return a chunk id of d.
C16_VectorsRemoved ==
    (lastCall.op = "remove" /\ lastCall.ok) =>
        \A i \in DOMAIN chroma : chroma[i].metadata.documentId # lastCall.documentId

\* The names of the tags attached to document d in the tables given.
AttachedNames(tagsTbl, docTagsTbl, d) ==
    {tagsTbl[j].name : j \in
        {k \in DOMAIN tagsTbl :
            \E i \in DOMAIN docTagsTbl :
                /\ docTagsTbl[i].documentId = d
                /\ docTagsTbl[i].tagId = tagsTbl[k].id}}

\* C18: after setDocumentTags(d, names) the tags attached to d are exactly
\* the trimmed, lower-cased, non-empty names given, each once; what d had
\* before is gone, an empty list leaves d without tags, Tag rows missing
\* for a name were created, and the rows of other documents are as before.
C18_TagsReplaced ==
    lastCall.op = "setDocumentTags" =>
        LET d == lastCall.documentId
            b == lastCall.before
            wanted == Requested(lastCall.tagNames)
            rowsOfD == {i \in DOMAIN documentTags : documentTags[i].documentId = d}
        IN  /\ AttachedNames(tags, documentTags, d) = wanted
            /\ Cardinality(rowsOfD) = Cardinality(wanted)
            /\ \A i \in rowsOfD :
                    \E j \in DOMAIN tags : tags[j].id = documentTags[i].tagId
            /\ wanted \subseteq TagNames
            /\ IsExtension(b.tags, tags)
            /\ \A i \in DOMAIN Added(b.tags, tags) :
                    /\ Added(b.tags, tags)[i].name \in wanted
                    /\ Added(b.tags, tags)[i].name \notin
                            {b.tags[j].name : j \in DOMAIN b.tags}
            /\ SelectSeq(documentTags, LAMBDA row : row.documentId # d)
                 = SelectSeq(b.documentTags, LAMBDA row : row.documentId # d)

\* A document tagged a gets the list " A", "B ": it keeps a, loses nothing
\* else than what is not named, the Tag b is created, and the other
\* document keeps its tags.
C18_Witness ==
    /\ lastCall.op = "setDocumentTags"
    /\ Len(lastCall.tagNames) = 2
    /\ \E name \in AttachedNames(lastCall.before.tags, lastCall.before.documentTags,
                                 lastCall.documentId) :
            name \notin Requested(lastCall.tagNames)
    /\ Len(tags) > Len(lastCall.before.tags)
    /\ \E i \in DOMAIN documentTags : documentTags[i].documentId # lastCall.documentId
    /\ AttachedNames(tags, documentTags, lastCall.documentId) # {}

\* C19: a search with an empty query string is refused at the input
\* boundary: the answer is a failure (ok = FALSE) with no data, given
\* without a call of the tag filter, of the relational store, of the
\* embedding service or of the vector collection.
C19_EmptyQueryRejected ==
    (searchOut.called /\ searchOut.query = <<>>) =>
        /\ ~searchOut.ok
        /\ searchOut.data = <<>>
        /\ searchOut.calls = <<>>

\* An empty query is sent with a tag filter that a stored document
\* satisfies, while documents and vectors are stored and every service is
\* up.
C19_Witness ==
    /\ searchOut.called
    /\ searchOut.query = <<>>
    /\ searchOut.fail = "none"
    /\ searchOut.tagNamesCsv = <<"a">>
    /\ \E d \in DocIds : HasTag(d, <<"a">>)
    /\ documents # <<>>
    /\ chroma # <<>>
    /\ ~searchOut.ok

\* The rows of a table that do not satisfy OfDocument.
Without(table, OfDocument(_)) == SelectSeq(table, LAMBDA row : ~OfDocument(row))

\* C17: after removeDocumentArtifacts(d) has completed the tables hold no
\* Document row of d, no chunk, Embedding record, text row, page row,
\* document-tag row or note of d, no note-tag or note-link of a note of d
\* and no note-link that points to d; all other rows are as they were.
C17_RowsRemoved ==
    (lastCall.op = "remove" /\ lastCall.ok) =>
        LET d == lastCall.documentId
            b == lastCall.before
            noteIds == {b.notes[i].id : i \in
                            {j \in DOMAIN b.notes : b.notes[j].documentId = d}}
        IN  /\ documents = Without(b.documents, LAMBDA row : row.id = d)
            /\ chunks = Without(b.chunks, LAMBDA row : row.documentId = d)
            /\ chunkEmbeddings =
                    Without(b.chunkEmbeddings, LAMBDA row : row.chunkId[1] = d)
            /\ documentText = Without(b.documentText, LAMBDA row : row.documentId = d)
            /\ documentPages = Without(b.documentPages, LAMBDA row : row.documentId = d)
            /\ documentTags = Without(b.documentTags, LAMBDA row : row.documentId = d)
            /\ notes = Without(b.notes, LAMBDA row : row.documentId = d)
            /\ noteTags = Without(b.noteTags, LAMBDA row : row.noteId \in noteIds)
            /\ noteLinks = Without(b.noteLinks,
                                   LAMBDA row : \/ row.noteId \in noteIds
                                                \/ row.linkedDocumentId = d)
            /\ tags = b.tags

\* A document with chunks, tags and a tagged note that links to another
\* document is removed, while a note of the other document links to both:
\* that note and its link to its own document stay.
C17_Witness ==
    /\ lastCall.op = "remove"
    /\ lastCall.ok
    /\ LET d == lastCall.documentId
           b == lastCall.before
       IN  /\ \E i \in DOMAIN b.chunks : b.chunks[i].documentId = d
           /\ \E i \in DOMAIN b.documentTags : b.documentTags[i].documentId = d
           /\ \E i \in DOMAIN b.notes :
                /\ b.notes[i].documentId = d
                /\ \E j \in DOMAIN b.noteTags : b.noteTags[j].noteId = b.notes[i].id
                /\ \E j \in DOMAIN b.noteLinks :
                        /\ b.noteLinks[j].noteId = b.notes[i].id
                        /\ b.noteLinks[j].linkedDocumentId # d
           /\ \E i \in DOMAIN b.notes :
                /\ b.notes[i].documentId # d
                /\ \E j \in DOMAIN b.noteLinks :
                        /\ b.noteLinks[j].noteId = b.notes[i].id
                        /\ b.noteLinks[j].linkedDocumentId = d
    /\ chunks # <<>>
    /\ notes # <<>>
    /\ noteLinks # <<>>


(***************************************************************************)
(* Further properties of the chunker                                       *)
(***************************************************************************)

\* The last n elements of a list.
LastWords(words, n) == SubSeq(words, Len(words) - n + 1, Len(words))

\* C21: the buffer kept after an emission is the last `overlap` words of
\* the chunk emitted when chunkSize > overlap, and nothing when
\* chunkSize <= overlap: every chunk after the first begins with the last
\* `overlap` words of the chunk before it in the first case, and in the
\* second case the chunks share no word, so that laid end to end they are
\* the words of the pages.
C21_CarriedBuffer ==
    chunkDone =>
        IF chunkIn.chunkSize > chunkIn.overlap
        THEN \A i \in 2..Len(chunkOut) :
                /\ Len(ChunkWords(chunkOut[i])) >= chunkIn.overlap
                /\ SubSeq(ChunkWords(chunkOut[i]), 1, chunkIn.overlap)
                     = LastWords(ChunkWords(chunkOut[i - 1]), chunkIn.overlap)
        ELSE NonOverlapping(chunkOut, 0, TRUE) = AllWords(chunkIn.pages)

\* The page number of every word of the pages, in page order.
RECURSIVE WordPages(_)
WordPages(pages) ==
    IF pages = <<>> THEN <<>>
    ELSE [i \in 1..Len(splitWords(Head(pages).text)) |-> Head(pages).page]
         \o WordPages(Tail(pages))

\* For chunkSize > overlap, the position among all words of the first word
\* of the chunk at position i of the list (from 1).
FirstWordOf(i) == (i - 1) * (chunkIn.chunkSize - chunkIn.overlap) + 1

\* C22: pageStart of a chunk is the page of the first word it holds and
\* pageEnd the page of its last word, so that every word of the chunk is
\* from a page between the two, also when the words kept from the chunk
\* before lie on both sides of a page boundary.
C22_PageSpanHoldsWords ==
    (chunkDone /\ chunkIn.chunkSize > chunkIn.overlap) =>
        \A i \in DOMAIN chunkOut :
            LET first == FirstWordOf(i)
                last == first + Len(ChunkWords(chunkOut[i])) - 1
            IN  /\ last <= Len(WordPages(chunkIn.pages))
                /\ chunkOut[i].pageStart = WordPages(chunkIn.pages)[first]
                /\ chunkOut[i].pageEnd = WordPages(chunkIn.pages)[last]
                /\ \A k \in first..last :
                        /\ chunkOut[i].pageStart <= WordPages(chunkIn.pages)[k]
                        /\ WordPages(chunkIn.pages)[k] <= chunkOut[i].pageEnd


(***************************************************************************)
(* Further properties of the hybrid search                                 *)
(***************************************************************************)

\* The text of the chunk that row r of the answer names.
ChunkTextOf(r) == chunks[CHOOSE i \in DOMAIN chunks : chunks[i].id = r.chunkId].text

\* The first 240 characters of a text.
First240(text) == SubSeq(text, 1, IF Len(text) < 240 THEN Len(text) ELSE 240)

\* The snippet of document d after the rows of the answer, starting from
\* `snippet`: a row that is a chunk of d and lifts the score by more than 5
\* puts the start of the chunk text in its place; with fillEmpty, so does a
\* row met while no snippet or an empty one is recorded.
RECURSIVE ExpectedSnippet(_, _, _, _)
ExpectedSnippet(d, snippet, rows, fillEmpty) ==
    IF rows = <<>> THEN snippet
    ELSE IF ~RowOf(Head(rows), d)
    THEN ExpectedSnippet(d, snippet, Tail(rows), fillEmpty)
    ELSE ExpectedSnippet(d,
            IF \/ ExpectedBoost(Head(rows).distance) > 5
               \/ fillEmpty /\ snippet = <<>>
            THEN First240(ChunkTextOf(Head(rows)))
            ELSE snippet,
            Tail(rows), fillEmpty)

\* The snippet the keyword pass recorded for d, empty when it recorded none.
KeywordSnippetOf(d) ==
    IF EntriesOf(searchOut.keyword, d) = <<>> THEN <<>>
    ELSE EntriesOf(searchOut.keyword, d)[1].snippet

C24_SnippetWindow ==
    (SearchAccepted /\ SearchQuery # <<>>) =>
        \A i \in DOMAIN searchOut.keyword :
            LET d == searchOut.keyword[i].documentId
                text == documentPages[FirstMatchingPage(d)].text
                index == IndexOf(ToLower(text), SearchQuery)
                start == IF index > 80 THEN index - 80 ELSE 0
                end == IF index + Len(SearchQuery) + 160 < Len(text)
                       THEN index + Len(SearchQuery) + 160 ELSE Len(text)
            IN  MatchingPages(d) # {} =>
                    /\ searchOut.keyword[i].page = documentPages[FirstMatchingPage(d)].page
                    /\ searchOut.keyword[i].snippet = SubSeq(text, start + 1, end)
                    /\ Includes(ToLower(searchOut.keyword[i].snippet), SearchQuery)

\* C30: an accepted query is matched by its trimmed, lower-cased form,
\* which is not empty: a document has a keyword score only if its title,
\* description, tags or text contains that non-empty string, so that a
\* query of white space only does not make every candidate a keyword hit.
C30_MatchedByNonEmptyQuery ==
    SearchAccepted =>
        \A i \in DOMAIN searchOut.keyword :
            /\ SearchQuery # <<>>
            /\ KeywordMatch(searchOut.keyword[i].documentId)


(***************************************************************************)
(* Further properties of notes and removal                                 *)
(***************************************************************************)

\* The ids of the stored documents.
StoredDocs == {documents[i].id : i \in DOMAIN documents}

\* C25: after any note creations and removeDocumentArtifacts calls every
\* note-link row names a stored document; an id of no stored document,
\* typed or found in a doc:// link of the text, gives no row, and an id
\* given several times gives one row.
C25_LinksNameDocuments ==
    /\ \A i \in DOMAIN noteLinks : noteLinks[i].linkedDocumentId \in StoredDocs
    /\ \A i, j \in DOMAIN noteLinks :
            (/\ noteLinks[i].noteId = noteLinks[j].noteId
             /\ noteLinks[i].linkedDocumentId = noteLinks[j].linkedDocumentId) => i = j
    /\ lastCall.op = "createNote" =>
            {noteLinks[i].linkedDocumentId : i \in
                {j \in DOMAIN noteLinks : noteLinks[j].noteId = lastCall.noteId}}
              = (Range(lastCall.form.linkedDocumentIds)
                 \cup Range(lastCall.form.markdownIds)) \cap StoredDocs

\* A note names document 2 twice in the typed list and once in its text,
\* and document 1, which was removed: it gets one link, to document 2,
\* while an earlier note keeps its link.
C25_Witness ==
    /\ lastCall.op = "createNote"
    /\ lastCall.form.linkedDocumentIds = <<2, 1, 2>>
    /\ lastCall.form.markdownIds = <<2>>
    /\ StoredDocs = {2}
    /\ Len(notes) = 2
    /\ Len(noteLinks) = 2
    /\ Cardinality({i \in DOMAIN noteLinks : noteLinks[i].noteId = lastCall.noteId}) = 1


(***************************************************************************)
(* Properties of the vector gateway                                        *)
(***************************************************************************)

\* C26: every failure of a vector query, while the collection is obtained
\* or while the query is made, leaves queryEmbeddings as the wrapped query
\* error, never as the error of the client library.
C26_QueryErrorsWrapped ==
    (lastCall.op = "queryEmbeddings" /\ ~lastCall.ok) => lastCall.error = QueryError

\* C29: a failure to obtain the collection does not stick: a call made
\* while the service is up, after a call that failed to obtain the
\* collection while it was down, obtains the collection and succeeds.
C29_AcquisitionNotSticky ==
    (/\ lastCall.op \in {"upsertEmbeddings", "queryEmbeddings"}
     /\ lastCall.promise = "rejected"
     /\ lastCall.up) => lastCall.ok


\* C27: the upload action checks the vector service first; when the check
\* fails the action answers ok = false, and no file, no row of any table,
\* no tag association and no vector has been written, and no embedding or
\* upsert call has been made: the health check is the only call.
C27_HealthGate ==
    lastCall.op = "upload" =>
        /\ Head(lastCall.calls) = "health"
        /\ ~assertChromaAvailable(lastCall.heartbeat) =>
              /\ ~lastCall.ok
              /\ DbNow = lastCall.before
              /\ uploads = lastCall.stored
              /\ lastCall.calls = <<"health">>

\* An upload of a readable PDF refused by the health check, after an
\* earlier upload was stored.
C27_Witness ==
    /\ lastCall.op = "upload"
    /\ ~assertChromaAvailable(lastCall.heartbeat)
    /\ lastCall.pdf
    /\ documents # <<>>
    /\ uploads # {}


(***************************************************************************)
(* Properties of concurrent tag replacement                                *)
(***************************************************************************)

\* C28: when two setDocumentTags calls for one document have run with
\* their statements interleaved, the tags attached to the document are the
\* names one of the two calls asked for, never names of both mixed.
C28_LastWriteWins ==
    (/\ lastCall.op = "setDocumentTagsTwice"
     /\ \A p \in 1..2 : TagCallEnded(lastCall.calls[p]))
        => \E p \in 1..2 :
              AttachedNames(tags, documentTags, lastCall.documentId)
                  = Requested(lastCall.calls[p].tagNames)

=============================================================================
